---- MODULE Spec2Model ----
(***************************************************************************)
(* State-machine model of the EDDAC chaincodes:                            *)
(*   SC1 (sc1_public.js, channel publicchannel, world state L1) and         *)
(*   SC2 (sc2_attr.js,   channel attrchannel,   world state L2).            *)
(* Each action is one chaincode transaction, executed to completion.       *)
(*                                                                         *)
(* Decimal strings (the wire and ledger form of every vector element) are  *)
(* sequences of one-character strings, e.g. "-12" is <<"-","1","2">>.      *)
(* Category strings are sequences of UTF-16 code units, e.g. "a1" is       *)
(* <<97,49>>, so that string comparison can be computed.                   *)
(* The modulus PRIME_P of the source is a 254-bit prime; TLC's integers    *)
(* are 32-bit, so the model runs the same arithmetic with a small prime.   *)
(***************************************************************************)
EXTENDS Integers, Sequences, FiniteSets, TLC

\* ------------------------------------------------------------------ bounds

\* Transactions SC1 executes in one behaviour of SpecSC1.
MaxTxSC1 == 5

\* Transactions SC2 executes in one behaviour of SpecSC2.
MaxTxSC2 == 4

\* Transactions both contracts execute in one behaviour of SpecFlow.
MaxTxFlow == 5

\* ---------------------------------------------------------- field arithmetic

PRIME_P == 7

\* JavaScript's % on BigInt: the remainder takes the sign of the dividend.
JsRem(x, m) == IF x >= 0 THEN x % m ELSE -((-x) % m)

modP_NoFixup(x) == JsRem(x, PRIME_P)

\* Mutant: a negative remainder is folded to its absolute value.
modP_AbsFold(x) ==
    LET r == JsRem(x, PRIME_P)
    IN  IF r >= 0 THEN r ELSE -r

modP(x) ==
    LET r == JsRem(x, PRIME_P)
    IN  IF r >= 0 THEN r ELSE r + PRIME_P

\* SC2 declares the modulus and modP again, in its own file.
PRIME_P_SC2 == 7

\* Mutant: SC2's modP without the fix-up of a negative remainder.
modP_SC2_NoFixup(x) == JsRem(x, PRIME_P_SC2)

modP_SC2(x) ==
    LET r == JsRem(x, PRIME_P_SC2)
    IN  IF r >= 0 THEN r ELSE r + PRIME_P_SC2

\* ------------------------------------------------------ decimal conversions

DigitChars == <<"0", "1", "2", "3", "4", "5", "6", "7", "8", "9">>

DigitOf(c) == CHOOSE d \in 0..9 : DigitChars[d + 1] = c

RECURSIVE ParseDigits(_)
ParseDigits(s) ==
    IF s = <<>> THEN 0
    ELSE ParseDigits(SubSeq(s, 1, Len(s) - 1)) * 10 + DigitOf(s[Len(s)])

\* BigInt(x) for a decimal string x.
BigInt(s) ==
    IF s # <<>> /\ Head(s) = "-" THEN -ParseDigits(Tail(s)) ELSE ParseDigits(s)

RECURSIVE NatToString(_)
NatToString(n) ==
    IF n < 10 THEN <<DigitChars[n + 1]>>
    ELSE NatToString(n \div 10) \o <<DigitChars[(n % 10) + 1]>>

\* BigInt.prototype.toString().
BigIntToString(n) ==
    IF n < 0 THEN <<"-">> \o NatToString(-n) ELSE NatToString(n)

\* arr.map(f)
Map(s, f(_)) == [i \in 1..Len(s) |-> f(s[i])]

\* Mutant: the element is stored as the client passed it.
NormString_Raw(x) == x

NormString(x) == BigIntToString(modP(BigInt(x)))

\* --------------------------------------------------------- string comparison

\* Category strings as UTF-16 code units: "B", "a", "a1".
CatB  == <<66>>
Cata  == <<97>>
Cata1 == <<97, 49>>

Categories == {CatB, Cata, Cata1}

Sign(x) == IF x < 0 THEN -1 ELSE IF x > 0 THEN 1 ELSE 0

\* Lexicographic comparison of two sequences of numbers; a proper prefix
\* comes first.  Result is -1, 0 or 1.
RECURSIVE SeqCompare(_, _)
SeqCompare(a, b) ==
    IF a = <<>> /\ b = <<>> THEN 0
    ELSE IF a = <<>> THEN -1
    ELSE IF b = <<>> THEN 1
    ELSE IF Head(a) # Head(b) THEN Sign(Head(a) - Head(b))
    ELSE SeqCompare(Tail(a), Tail(b))

\* Ordinary (code unit) string order, the order of a < b on JS strings and
\* of the ledger's keys.
CodeUnitCompare(a, b) == SeqCompare(a, b)

IsUpper(c) == c >= 65 /\ c <= 90
IsLower(c) == c >= 97 /\ c <= 122
IsDigit(c) == c >= 48 /\ c <= 57

\* Collation weights of the Unicode root collation for ASCII digits and
\* letters: digits before letters, letters alphabetical regardless of case
\* (primary), and at equal primary weight lower case before upper case
\* (tertiary).
PrimaryWeight(c) ==
    IF IsDigit(c) THEN c - 48
    ELSE IF IsUpper(c) THEN 10 + (c - 65)
    ELSE IF IsLower(c) THEN 10 + (c - 97)
    ELSE 100 + c

TertiaryWeight(c) == IF IsUpper(c) THEN 1 ELSE 0

IcuCompare(a, b) ==
    LET p == SeqCompare(Map(a, PrimaryWeight), Map(b, PrimaryWeight))
    IN  IF p # 0 THEN p
        ELSE SeqCompare(Map(a, TertiaryWeight), Map(b, TertiaryWeight))

\* The collations String.prototype.localeCompare can have on a host: a Node
\* build with ICU collates, a build without Intl compares code units.
Collations == {"icu", "codeunit"}

\* -------------------------------------------------------------------- state

VARIABLES
    L1,         \* world state of publicchannel (SC1): composite key -> value
    L2,         \* world state of attrchannel (SC2): composite key -> value
    collation,  \* the host's collation behind localeCompare
    nTx1,       \* transactions executed by SC1 so far
    nTx2,       \* transactions executed by SC2 so far
    last1,      \* the latest SC1 transaction: function, arguments, outcome
    last2,      \* the latest SC2 transaction: function, arguments, outcome
    decided,    \* history: per (object, requester), txIds of successful DecTest
    vecSince,   \* history: per user, the S returned by CreateUserVec since the
                \* user's latest CreateHidAtt (<<>> when there is none) and
                \* the number of such successful calls
    L2r,        \* world state of attrchannel on a second endorsing peer
    last2r,     \* the latest SC2 transaction as the second peer executed it
    collationR, \* the second peer's host collation
    calc,       \* a bare evaluation of modP or innerProductMod: inputs, output
    hist,       \* history: the arguments of the latest successful writes
    scan,       \* a range query in progress: its iterator, the collected
                \* entries, the position in the loop
    chan,       \* a run of scripts/createChannel.sh: its shell variables, the
                \* position in the script, the attempts made so far
    wl          \* a Caliper round: its arguments and, per worker, the workload
                \* module's fields, its position and its requests so far

\* The variables the two contracts' transactions on the first peer leave alone.
aux == <<L2r, last2r, collationR, calc, hist, scan, chan, wl>>

vars == <<L1, L2, collation, nTx1, nTx2, last1, last2, decided, vecSince,
          L2r, last2r, collationR, calc, hist, scan, chan, wl>>

\* Two user ids, one a string prefix of the other.
Users   == {"u1", "u12"}
Objects == {"o1"}

\* Arguments the clients pass.
ChValueInputs == { <<"2">>, <<"1", "0">>, <<"-", "2">> }
RValueInput   == <<"9">>
AaenIdInput   == "AA1"

SVecInputs == { << <<"1", "0">>, <<"-", "4">>, <<"8">> >>,
                << <<"1">>, <<"2">>, <<"3">> >>,
                << <<"2">>, <<"5">> >> }

PVecInputs == { << <<"1">>, <<"-", "1">>, <<"0">> >>,
                << <<"1">>, <<"0">>, <<"0">> >>,
                << <<"0">>, <<"7">>, <<"-", "7">> >>,
                << <<"1">>, <<"2">> >> }

\* Transaction timestamps the ordering service hands out.
TxTimestamps == { [seconds |-> 1, nanos |-> 0],
                  [seconds |-> 1, nanos |-> 2500000] }

\* ----------------------------------------------------------- ledger gateway

\* stub.getState(key): the stored value, or an empty buffer.
Empty == [empty |-> TRUE]

getState(L, key) == IF key \in DOMAIN L THEN L[key] ELSE Empty

\* stub.putState(key, value)
putState(L, key, value) == (key :> value) @@ L

\* stub.createCompositeKey(objectType, attributes)
createCompositeKey(objectType, attributes) == <<objectType>> \o attributes

\* The ids of the Caliper workload.  A worker's prefix is
\* `${txType}_r${roundIndex}_w${workerIndex}_${this._nowId()}`, and _nowId()
\* is `${Date.now()}_${Math.floor(Math.random() * 1e9)}`.
RoundTxTypes  == {"DecTestTx", "TransAttToVecTx"}
RoundIndexes  == {0}
WorkerIndexes == {1, 11}
DateNow       == {5}
RandomInts    == {3, 31}

\* Mutant: the prefix leaves out the worker index.
PrefixString_NoWorker(txType, roundIndex, workerIndex, now, rand) ==
    txType \o "_r" \o ToString(roundIndex)
           \o "_" \o ToString(now) \o "_" \o ToString(rand)

PrefixString(txType, roundIndex, workerIndex, now, rand) ==
    txType \o "_r" \o ToString(roundIndex) \o "_w" \o ToString(workerIndex)
           \o "_" \o ToString(now) \o "_" \o ToString(rand)

\* The same strings as sequences of code units.
NatUnits(n) == Map(NatToString(n), LAMBDA c : 48 + DigitOf(c))

TxTypeUnits(txType) ==
    CASE txType = "DecTestTx" -> <<68, 101, 99, 84, 101, 115, 116, 84, 120>>
      [] txType = "TransAttToVecTx" ->
            <<84, 114, 97, 110, 115, 65, 116, 116, 84, 111, 86, 101, 99, 84, 120>>

SuffixUnits(suffix) ==
    CASE suffix = "_user" -> <<95, 117, 115, 101, 114>>
      [] suffix = "_obj"  -> <<95, 111, 98, 106>>

PrefixUnits(txType, roundIndex, workerIndex, now, rand) ==
    TxTypeUnits(txType) \o <<95, 114>> \o NatUnits(roundIndex)
        \o <<95, 119>> \o NatUnits(workerIndex)
        \o <<95>> \o NatUnits(now) \o <<95>> \o NatUnits(rand)

\* Every id a worker of a round can make: prefix + "_user", prefix + "_obj".
IdSpace ==
    [txType : RoundTxTypes, roundIndex : RoundIndexes, workerIndex : WorkerIndexes,
     now : DateNow, rand : RandomInts, suffix : {"_user", "_obj"}]

IdString(d) ==
    PrefixString(d.txType, d.roundIndex, d.workerIndex, d.now, d.rand) \o d.suffix

IdUnits(d) ==
    PrefixUnits(d.txType, d.roundIndex, d.workerIndex, d.now, d.rand)
        \o SuffixUnits(d.suffix)

\* From an id to its code units.
IdUnitsOf ==
    [s \in {IdString(d) : d \in IdSpace} |->
        IdUnits(CHOOSE d \in IdSpace : IdString(d) = s)]

WorkloadUnits(s) == IdUnitsOf[s]

\* The code units of the key parts that occur in scanned world states.
CodeUnits(s) ==
    CASE s = "ATTR"       -> <<65, 84, 84, 82>>
      [] s = "USERVEC"    -> <<85, 83, 69, 82, 86, 69, 67>>
      [] s = "USER"       -> <<85, 83, 69, 82>>
      [] s = "u1"         -> <<117, 49>>
      [] s = "u12"        -> <<117, 49, 50>>
      [] s = "PKCH"       -> <<80, 75, 67, 72>>
      [] s = "AA1"        -> <<65, 65, 49>>
      [] s = "AA2"        -> <<65, 65, 50>>
      [] s = "AA3"        -> <<65, 65, 51>>
      [] s = "SYS#PKABE"  -> <<83, 89, 83, 35, 80, 75, 65, 66, 69>>
      [] s = "SYS#SHAMIR" -> <<83, 89, 83, 35, 83, 72, 65, 77, 73, 82>>
      [] s = "DATA"        -> <<68, 65, 84, 65>>
      [] s = "S"           -> <<83>>
      [] s = "ACCESS"      -> <<65, 67, 67, 69, 83, 83>>
      [] s = "ACCESS_LAST" -> <<65, 67, 67, 69, 83, 83, 95, 76, 65, 83, 84>>
      [] s = "o1"          -> <<111, 49>>
      [] s = "o2"          -> <<111, 50>>
      [] OTHER             -> WorkloadUnits(s)

\* The code units of the i-th part of key k.  The category of an ATTR key
\* is a sequence of code units already; the transaction id of an ACCESS key
\* is a number, written in decimal digits.
AttributeUnits(k, i) ==
    IF k[1] = "ATTR" /\ i = 3 THEN k[i]
    ELSE IF k[1] = "ACCESS" /\ i = 4
         THEN NatUnits(k[i])
         ELSE CodeUnits(k[i])

RECURSIVE KeyAttributes(_, _)
KeyAttributes(k, i) ==
    IF i > Len(k) THEN <<>>
    ELSE AttributeUnits(k, i) \o <<0>> \o KeyAttributes(k, i + 1)

\* The string the ledger stores for a key.  A simple key, a tuple of one
\* part here, is stored as it is; a composite key is U+0000, the object type,
\* U+0000, and every attribute followed by U+0000.
LedgerKey(k) ==
    IF Len(k) = 1 THEN CodeUnits(k[1])
    ELSE <<0>> \o CodeUnits(k[1]) \o <<0>> \o KeyAttributes(k, 2)

IsPrefix(p, s) == Len(p) <= Len(s) /\ SubSeq(s, 1, Len(p)) = p

\* The keys of a scan in ledger order: ascending by the stored key string.
RECURSIVE KeysInOrder(_)
KeysInOrder(ks) ==
    IF ks = {} THEN <<>>
    ELSE LET k == CHOOSE x \in ks :
                    \A y \in ks : CodeUnitCompare(LedgerKey(x), LedgerKey(y)) <= 0
         IN  <<k>> \o KeysInOrder(ks \ {k})

\* Mutant: the scan's prefix ends with the user id, without the closing U+0000.
ScanAttr_OpenPrefix(L, userId) ==
    LET prefix == <<0>> \o CodeUnits("ATTR") \o <<0>> \o CodeUnits(userId)
        ks     == {k \in DOMAIN L : IsPrefix(prefix, LedgerKey(k))}
    IN  Map(KeysInOrder(ks), LAMBDA k : L[k])

\* stub.getStateByPartialCompositeKey('ATTR', [userId]), read to the end: the
\* keys that start with the partial composite key.
ScanAttr(L, userId) ==
    LET prefix == <<0>> \o CodeUnits("ATTR") \o <<0>> \o CodeUnits(userId) \o <<0>>
        ks     == {k \in DOMAIN L : IsPrefix(prefix, LedgerKey(k))}
    IN  Map(KeysInOrder(ks), LAMBDA k : L[k])

Ok(fn, args, ret)   == [fn |-> fn, args |-> args, err |-> "", ret |-> ret]
Err(fn, args, msg)  == [fn |-> fn, args |-> args, err |-> msg, ret |-> <<>>]
NoTx                == [fn |-> "", args |-> <<>>, err |-> "", ret |-> <<>>]
NoVec               == [S |-> <<>>, calls |-> 0]

\* ---------------------------------------------------------------------- SC2

\* Mutant: the scan's partial key leaves out the user id.
GetHiddenAttributes_AllUsers(L, userId) ==
    LET ks == {k \in DOMAIN L : Len(k) = 3 /\ k[1] = "ATTR"}
    IN  Map(KeysInOrder(ks), LAMBDA k : L[k])

GetHiddenAttributes(L, userId) == ScanAttr(L, userId)

\* a.localeCompare(b) on a host whose collation is c.
localeCompare(c, a, b) ==
    IF c = "icu" THEN IcuCompare(a, b) ELSE CodeUnitCompare(a, b)

\* attrs.sort((a, b) => a.category.localeCompare(b.category)): Array.sort is
\* stable, modelled as an insertion sort that puts an element after its equals.
InsertSorted(c, s, x) ==
    LET later == {i \in 1..Len(s) : localeCompare(c, s[i].category, x.category) > 0}
        p     == IF later = {} THEN Len(s) + 1
                 ELSE CHOOSE i \in later : \A j \in later : i <= j
    IN  SubSeq(s, 1, p - 1) \o <<x>> \o SubSeq(s, p, Len(s))

RECURSIVE SortAttrs(_, _)
SortAttrs(c, s) ==
    IF s = <<>> THEN <<>>
    ELSE InsertSorted(c, SortAttrs(c, SubSeq(s, 1, Len(s) - 1)), s[Len(s)])

RECURSIVE ProdAll(_)
ProdAll(ch) ==
    IF ch = <<>> THEN 1
    ELSE modP_SC2(ProdAll(SubSeq(ch, 1, Len(ch) - 1)) * ch[Len(ch)])

\* for i in 0..n-1, for j in i+1..n-1: push modP(ch[i] * ch[j])
RECURSIVE PairwiseFrom(_, _)
PairwiseFrom(ch, i) ==
    IF i > Len(ch) THEN <<>>
    ELSE [k \in 1..(Len(ch) - i) |-> modP_SC2(ch[i] * ch[i + k])]
         \o PairwiseFrom(ch, i + 1)

\* Mutant: the inner loop starts at j = i, so every square is pushed too.
RECURSIVE PairwiseFromSelf(_, _)
PairwiseFromSelf(ch, i) ==
    IF i > Len(ch) THEN <<>>
    ELSE [k \in 1..(Len(ch) - i + 1) |-> modP_SC2(ch[i] * ch[i + k - 1])]
         \o PairwiseFromSelf(ch, i + 1)

Pairwise_WithSquares(ch) == PairwiseFromSelf(ch, 1)

Pairwise(ch) == PairwiseFrom(ch, 1)

\* Mutant: the trailing element is the transaction count, not the constant 1.
UserVecOf_Salted(attrs) ==
    LET sorted   == SortAttrs(collation, attrs)
        chValues == Map(sorted, LAMBDA a : modP_SC2(BigInt(a.chValue)))
        S        == <<ProdAll(chValues)>> \o Pairwise(chValues) \o chValues \o <<nTx2>>
    IN  Map(S, BigIntToString)

\* The vector S of CreateUserVec for the scanned attribute records, on a
\* host whose collation is c.
UserVecOfOn(c, attrs) ==
    LET sorted   == SortAttrs(c, attrs)
        chValues == Map(sorted, LAMBDA a : modP_SC2(BigInt(a.chValue)))
        S        == <<ProdAll(chValues)>> \o Pairwise(chValues) \o chValues \o <<1>>
    IN  Map(S, BigIntToString)

UserVecOf(attrs) == UserVecOfOn(collation, attrs)

\* Mutant: the record is written without the check for an existing one.
CreateUser_Upsert(userId) ==
    LET key == createCompositeKey("USER", <<userId>>)
        rec == [userId |-> userId]
    IN  /\ nTx2' = nTx2 + 1
        /\ L2' = putState(L2, key, rec)
        /\ last2' = Ok("CreateUser", <<userId>>, rec)
        /\ UNCHANGED <<L1, collation, nTx1, last1, decided, vecSince>>

CreateUser(userId) ==
    LET key    == createCompositeKey("USER", <<userId>>)
        exists == getState(L2, key)
        rec    == [userId |-> userId]
    IN  /\ nTx2' = nTx2 + 1
        /\ IF exists # Empty
           THEN /\ last2' = Err("CreateUser", <<userId>>, "User already exists")
                /\ UNCHANGED L2
           ELSE /\ L2' = putState(L2, key, rec)
                /\ last2' = Ok("CreateUser", <<userId>>, rec)
        /\ UNCHANGED <<L1, collation, nTx1, last1, decided, vecSince>>

\* Mutant: the write also blanks the user's cached vector.
CreateHidAtt_Invalidate(userId, category, chValue, rValue, aaenId) ==
    LET key  == createCompositeKey("ATTR", <<userId, category>>)
        vkey == createCompositeKey("USERVEC", <<userId>>)
        attr == [userId |-> userId, category |-> category, chValue |-> chValue,
                 rValue |-> rValue, aaenId |-> aaenId]
    IN  /\ L2' = putState(putState(L2, key, attr), vkey, [userId |-> userId, S |-> <<>>])
        /\ last2' = Ok("CreateHidAtt", <<userId, category>>, attr)
        /\ nTx2' = nTx2 + 1
        /\ vecSince' = IF userId \in DOMAIN vecSince
                       THEN [vecSince EXCEPT ![userId] = NoVec]
                       ELSE vecSince
        /\ UNCHANGED <<L1, collation, nTx1, last1, decided>>

CreateHidAtt(userId, category, chValue, rValue, aaenId) ==
    LET key  == createCompositeKey("ATTR", <<userId, category>>)
        attr == [userId |-> userId, category |-> category, chValue |-> chValue,
                 rValue |-> rValue, aaenId |-> aaenId]
    IN  /\ L2' = putState(L2, key, attr)
        /\ last2' = Ok("CreateHidAtt", <<userId, category>>, attr)
        /\ nTx2' = nTx2 + 1
        /\ vecSince' = IF userId \in DOMAIN vecSince
                       THEN [vecSince EXCEPT ![userId] = NoVec]
                       ELSE vecSince
        /\ UNCHANGED <<L1, collation, nTx1, last1, decided>>

\* Mutant: an empty scan is refused as CreateUserVec refuses it.
GetHiddenAttributesTx_Throwing(userId) ==
    LET attrs == GetHiddenAttributes(L2, userId)
    IN  /\ nTx2' = nTx2 + 1
        /\ last2' = IF Len(attrs) = 0
                    THEN Err("GetHiddenAttributes", <<userId>>,
                             "No hidden attributes for user")
                    ELSE Ok("GetHiddenAttributes", <<userId>>, attrs)
        /\ UNCHANGED <<L1, L2, collation, nTx1, last1, decided, vecSince>>

\* GetHiddenAttributes as a transaction of its own.
GetHiddenAttributesTx(userId) ==
    /\ nTx2' = nTx2 + 1
    /\ last2' = Ok("GetHiddenAttributes", <<userId>>, GetHiddenAttributes(L2, userId))
    /\ UNCHANGED <<L1, L2, collation, nTx1, last1, decided, vecSince>>

CreateUserVec(userId) ==
    LET attrs == GetHiddenAttributes(L2, userId)
        Sstr  == UserVecOf(attrs)
        key   == createCompositeKey("USERVEC", <<userId>>)
        rec   == [userId |-> userId, S |-> Sstr]
    IN  /\ nTx2' = nTx2 + 1
        /\ IF Len(attrs) = 0
           THEN /\ last2' = Err("CreateUserVec", <<userId>>, "No hidden attributes for user")
                /\ UNCHANGED <<L2, vecSince>>
           ELSE /\ L2' = putState(L2, key, rec)
                /\ last2' = Ok("CreateUserVec", <<userId>>, rec)
                /\ vecSince' = IF userId \in DOMAIN vecSince
                               THEN [vecSince EXCEPT ![userId] = [S |-> Sstr, calls |-> @.calls + 1]]
                               ELSE vecSince
        /\ UNCHANGED <<L1, collation, nTx1, last1, decided>>

\* The same two transactions as the second endorsing peer executes them, on
\* its own copy of the world state and with its own host's collation.
PeerCreateHidAtt(userId, category, chValue, rValue, aaenId) ==
    LET key  == createCompositeKey("ATTR", <<userId, category>>)
        attr == [userId |-> userId, category |-> category, chValue |-> chValue,
                 rValue |-> rValue, aaenId |-> aaenId]
    IN  /\ L2r' = putState(L2r, key, attr)
        /\ last2r' = Ok("CreateHidAtt", <<userId, category>>, attr)
        /\ UNCHANGED collationR

PeerCreateUserVec(userId) ==
    LET attrs == GetHiddenAttributes(L2r, userId)
        Sstr  == UserVecOfOn(collationR, attrs)
        key   == createCompositeKey("USERVEC", <<userId>>)
        rec   == [userId |-> userId, S |-> Sstr]
    IN  /\ IF Len(attrs) = 0
           THEN /\ last2r' = Err("CreateUserVec", <<userId>>, "No hidden attributes for user")
                /\ UNCHANGED L2r
           ELSE /\ L2r' = putState(L2r, key, rec)
                /\ last2r' = Ok("CreateUserVec", <<userId>>, rec)
        /\ UNCHANGED collationR

\* --------------------------------------------------------------------- JSON

\* A JSON text is the value it denotes and whether it carries insignificant
\* white space; a string that is no JSON text denotes nothing.
JsonText(v, spaced) == [json |-> TRUE, value |-> v, spaced |-> spaced]
NotJson(s)          == [json |-> FALSE, value |-> [raw |-> s], spaced |-> FALSE]

\* JSON.parse(text) throws a SyntaxError unless CanParse(text).
CanParse(text)   == text.json
JSONparse(text)  == text.value
JSONstringify(v) == JsonText(v, FALSE)

\* ---------------------------------------------------------------------- SC1

\* Mutant: a shamir configuration already stored is kept.
InitLedger_KeepShamir(pkABEJson, shamirConfigJson) ==
    LET pkABE  == JSONparse(pkABEJson)
        shamir == JSONparse(shamirConfigJson)
        L_pk   == putState(L1, <<"SYS#PKABE">>, JSONstringify(pkABE))
    IN  /\ nTx1' = nTx1 + 1
        /\ IF CanParse(pkABEJson) /\ CanParse(shamirConfigJson)
           THEN /\ L1' = IF <<"SYS#SHAMIR">> \in DOMAIN L1 THEN L_pk
                          ELSE putState(L_pk, <<"SYS#SHAMIR">>, JSONstringify(shamir))
                /\ last1' = Ok("InitLedger", <<>>,
                               JSONstringify([pkABE |-> pkABE, shamir |-> shamir]))
           ELSE /\ last1' = Err("InitLedger", <<>>, "SyntaxError")
                /\ UNCHANGED L1
        /\ UNCHANGED <<L2, collation, nTx2, last2, decided, vecSince>>

InitLedger(pkABEJson, shamirConfigJson) ==
    LET pkABE  == JSONparse(pkABEJson)
        shamir == JSONparse(shamirConfigJson)
        L_pk   == putState(L1, <<"SYS#PKABE">>, JSONstringify(pkABE))
    IN  /\ nTx1' = nTx1 + 1
        /\ IF CanParse(pkABEJson) /\ CanParse(shamirConfigJson)
           THEN /\ L1' = putState(L_pk, <<"SYS#SHAMIR">>, JSONstringify(shamir))
                /\ last1' = Ok("InitLedger", <<>>,
                               JSONstringify([pkABE |-> pkABE, shamir |-> shamir]))
           ELSE /\ last1' = Err("InitLedger", <<>>, "SyntaxError")
                /\ UNCHANGED L1
        /\ UNCHANGED <<L2, collation, nTx2, last2, decided, vecSince>>

\* Mutant: the stored buffer is returned without the check for absence.
ReadPKABE_NoCheck ==
    /\ nTx1' = nTx1 + 1
    /\ last1' = Ok("ReadPKABE", <<>>, getState(L1, <<"SYS#PKABE">>))
    /\ UNCHANGED <<L1, L2, collation, nTx2, last2, decided, vecSince>>

ReadPKABE ==
    LET data == getState(L1, <<"SYS#PKABE">>)
    IN  /\ nTx1' = nTx1 + 1
        /\ last1' = IF data = Empty
                    THEN Err("ReadPKABE", <<>>, "PKABE not initialized")
                    ELSE Ok("ReadPKABE", <<>>, data)
        /\ UNCHANGED <<L1, L2, collation, nTx2, last2, decided, vecSince>>

\* Mutant: every call writes a key of its own, made of index and call number.
CreatePKCH_PerCall(index, pkCHJson) ==
    LET key == createCompositeKey("PKCH", <<index, nTx1>>)
    IN  /\ L1' = putState(L1, key, pkCHJson)
        /\ last1' = Ok("CreatePKCH", <<index>>, pkCHJson)
        /\ nTx1' = nTx1 + 1
        /\ UNCHANGED <<L2, collation, nTx2, last2, decided, vecSince>>

CreatePKCH(index, pkCHJson) ==
    LET key == createCompositeKey("PKCH", <<index>>)
    IN  /\ L1' = putState(L1, key, pkCHJson)
        /\ last1' = Ok("CreatePKCH", <<index>>, pkCHJson)
        /\ nTx1' = nTx1 + 1
        /\ UNCHANGED <<L2, collation, nTx2, last2, decided, vecSince>>

ReadPKCH(index) ==
    LET data == getState(L1, createCompositeKey("PKCH", <<index>>))
    IN  /\ nTx1' = nTx1 + 1
        /\ last1' = IF data = Empty
                    THEN Err("ReadPKCH", <<index>>, "No PKCH at index")
                    ELSE Ok("ReadPKCH", <<index>>, data)
        /\ UNCHANGED <<L1, L2, collation, nTx2, last2, decided, vecSince>>

\* stub.getStateByPartialCompositeKey('PKCH', []), read to the end.
ScanPKCH(L) ==
    LET prefix == <<0>> \o CodeUnits("PKCH") \o <<0>>
        ks     == {k \in DOMAIN L : IsPrefix(prefix, LedgerKey(k))}
    IN  Map(KeysInOrder(ks), LAMBDA k : L[k])

GetAllPKCH ==
    LET bufs == ScanPKCH(L1)
    IN  /\ nTx1' = nTx1 + 1
        /\ last1' = IF \A i \in 1..Len(bufs) : CanParse(bufs[i])
                    THEN Ok("GetAllPKCH", <<>>, JSONstringify(Map(bufs, JSONparse)))
                    ELSE Err("GetAllPKCH", <<>>, "SyntaxError")
        /\ UNCHANGED <<L1, L2, collation, nTx2, last2, decided, vecSince>>

\* The loop of innerProductMod; the length check is LengthMismatch.
RECURSIVE InnerProductUpTo(_, _, _)
InnerProductUpTo(S, P, n) ==
    IF n = 0 THEN 0
    ELSE modP(InnerProductUpTo(S, P, n - 1) + modP(modP(S[n]) * modP(P[n])))

\* Mutant: the parenthesis closes after the sum, not after the product.
RECURSIVE InnerProductUpTo_Misplaced(_, _, _)
InnerProductUpTo_Misplaced(S, P, n) ==
    IF n = 0 THEN 0
    ELSE modP((InnerProductUpTo_Misplaced(S, P, n - 1) + modP(S[n])) * modP(P[n]))

innerProductMod_Misplaced(S, P) == InnerProductUpTo_Misplaced(S, P, Len(S))

\* Mutant: the elements are added, not multiplied.
RECURSIVE InnerProductUpTo_Additive(_, _, _)
InnerProductUpTo_Additive(S, P, n) ==
    IF n = 0 THEN 0
    ELSE modP(InnerProductUpTo_Additive(S, P, n - 1) + modP(modP(S[n]) + modP(P[n])))

innerProductMod_Additive(S, P) == InnerProductUpTo_Additive(S, P, Len(S))

\* Mutant: only a longer S is refused.
LengthMismatch_OneSided(S, P) == Len(S) > Len(P)

LengthMismatch(S, P) == Len(S) # Len(P)

innerProductMod(S, P) == InnerProductUpTo(S, P, Len(S))

CreateVec(objectId, ownerId, policyVector) ==
    LET P_norm == Map(policyVector, NormString)
        meta   == [objectId |-> objectId, ownerId |-> ownerId, policyVector |-> P_norm]
        key    == createCompositeKey("DATA", <<objectId>>)
    IN  /\ L1' = putState(L1, key, meta)
        /\ last1' = Ok("CreateVec", <<objectId>>, meta)
        /\ nTx1' = nTx1 + 1
        /\ UNCHANGED <<L2, collation, nTx2, last2, decided, vecSince>>

\* Mutant: a missing DATA record reads as a record with an empty policy vector.
GetDataMeta_Default(L, objectId) ==
    LET key == createCompositeKey("DATA", <<objectId>>)
    IN  IF key \in DOMAIN L THEN L[key]
        ELSE [objectId |-> objectId, ownerId |-> "", policyVector |-> <<>>]

GetDataMeta(L, objectId) == getState(L, createCompositeKey("DATA", <<objectId>>))

\* GetDataMeta as a transaction of its own.
GetDataMetaTx(objectId) ==
    LET meta == GetDataMeta(L1, objectId)
    IN  /\ nTx1' = nTx1 + 1
        /\ last1' = IF meta = Empty
                    THEN Err("GetDataMeta", <<objectId>>, "No DATA meta for object")
                    ELSE Ok("GetDataMeta", <<objectId>>, meta)
        /\ UNCHANGED <<L1, L2, collation, nTx2, last2, decided, vecSince>>

StoreUserVec(userId, sVector) ==
    LET S_norm == Map(sVector, NormString)
        rec    == [userId |-> userId, S |-> S_norm]
        key    == createCompositeKey("S", <<userId>>)
    IN  /\ L1' = putState(L1, key, rec)
        /\ last1' = Ok("StoreUserVec", <<userId>>, rec)
        /\ nTx1' = nTx1 + 1
        /\ UNCHANGED <<L2, collation, nTx2, last2, decided, vecSince>>

\* ReadUserVec as a transaction of its own.
ReadUserVecTx(userId) ==
    LET rec == getState(L1, createCompositeKey("S", <<userId>>))
    IN  /\ nTx1' = nTx1 + 1
        /\ last1' = IF rec = Empty
                    THEN Err("ReadUserVec", <<userId>>, "No S vector for user")
                    ELSE Ok("ReadUserVec", <<userId>>, rec)
        /\ UNCHANGED <<L1, L2, collation, nTx2, last2, decided, vecSince>>

\* Mutant: S is read from the vector SC2 cached under USERVEC.
ReadUserVec_FromCache(L, userId) ==
    getState(L2, createCompositeKey("USERVEC", <<userId>>))

ReadUserVec(L, userId) == getState(L, createCompositeKey("S", <<userId>>))

\* new Date(millis).toISOString(), for instants within the first day of the epoch.
ToISOString(millis) ==
    [date |-> "1970-01-01", second |-> millis \div 1000, milli |-> millis % 1000]

TxMillis(txTs) == (txTs.seconds * 1000) + (txTs.nanos \div 1000000)

\* The record DecTest builds once it has read S and P.
AccessOf(objectId, requesterId, S, P, txId, txTs) ==
    LET ip == innerProductMod(S, P)
    IN  [objectId |-> objectId, requesterId |-> requesterId,
         allowed |-> (ip = 0), innerProduct |-> BigIntToString(ip),
         txId |-> txId, timestamp |-> ToISOString(TxMillis(txTs))]

\* Mutant: the history key leaves out the transaction id.
DecTestWrites_NoTxId(L, objectId, requesterId, txId, access) ==
    LET histKey == createCompositeKey("ACCESS", <<objectId, requesterId>>)
        lastKey == createCompositeKey("ACCESS_LAST", <<objectId, requesterId>>)
    IN  putState(putState(L, histKey, access), lastKey, access)

\* Mutant: the latest-decision key is written only when it is absent.
DecTestWrites_KeepFirst(L, objectId, requesterId, txId, access) ==
    LET histKey == createCompositeKey("ACCESS", <<objectId, requesterId, txId>>)
        lastKey == createCompositeKey("ACCESS_LAST", <<objectId, requesterId>>)
        L_hist  == putState(L, histKey, access)
    IN  IF lastKey \in DOMAIN L THEN L_hist ELSE putState(L_hist, lastKey, access)

\* Mutant: the latest-decision key is written only for an allowed request.
DecTestWrites_PointerIfAllowed(L, objectId, requesterId, txId, access) ==
    LET histKey == createCompositeKey("ACCESS", <<objectId, requesterId, txId>>)
        lastKey == createCompositeKey("ACCESS_LAST", <<objectId, requesterId>>)
        L_hist  == putState(L, histKey, access)
    IN  IF access.allowed THEN putState(L_hist, lastKey, access) ELSE L_hist

\* The two writes of DecTest.
DecTestWrites(L, objectId, requesterId, txId, access) ==
    LET histKey == createCompositeKey("ACCESS", <<objectId, requesterId, txId>>)
        lastKey == createCompositeKey("ACCESS_LAST", <<objectId, requesterId>>)
    IN  putState(putState(L, histKey, access), lastKey, access)

DecTest(objectId, requesterId, txTs) ==
    LET Srec   == ReadUserVec(L1, requesterId)
        meta   == GetDataMeta(L1, objectId)
        S      == Map(Srec.S, BigInt)
        P      == Map(meta.policyVector, BigInt)
        txId   == nTx1 + 1
        access == AccessOf(objectId, requesterId, S, P, txId, txTs)
        args   == <<objectId, requesterId>>
    IN  /\ nTx1' = nTx1 + 1
        /\ IF Srec = Empty
           THEN /\ last1' = Err("DecTest", args, "No S vector for user")
                /\ UNCHANGED <<L1, decided>>
           ELSE IF meta = Empty
           THEN /\ last1' = Err("DecTest", args, "No DATA meta for object")
                /\ UNCHANGED <<L1, decided>>
           ELSE IF LengthMismatch(S, P)
           THEN /\ last1' = Err("DecTest", args, "Inner product length mismatch")
                /\ UNCHANGED <<L1, decided>>
           ELSE /\ L1' = DecTestWrites(L1, objectId, requesterId, txId, access)
                /\ last1' = Ok("DecTest", args, access)
                /\ decided' = IF args \in DOMAIN decided
                              THEN [decided EXCEPT ![args] = Append(@, txId)]
                              ELSE decided
        /\ UNCHANGED <<L2, collation, nTx2, last2, vecSince>>

\* ------------------------------------------------------------ specification

NoCalc == [fn |-> "", in |-> <<>>, out |-> <<>>]
NoScan == [fn |-> "", args |-> <<>>, pc |-> "idle", shim |-> "", entries |-> <<>>,
           all |-> <<>>, res |-> <<>>, opened |-> 0, closed |-> 0]
NoChan == [pc |-> "idle"]
NoRound == [txType |-> "", workers |-> <<>>]
NoHist == [policy |-> <<>>, attr |-> <<>>, pkch |-> <<>>, init |-> <<>>,
           users |-> <<>>]

\* Empty ledgers on every peer; the hosts' collations are left open.
InitLedgers ==
    /\ L1 = <<>>
    /\ L2 = <<>>
    /\ collation \in Collations
    /\ nTx1 = 0
    /\ nTx2 = 0
    /\ last1 = NoTx
    /\ last2 = NoTx
    /\ decided = [pr \in Objects \X Users |-> <<>>]
    /\ vecSince = [u \in Users |-> NoVec]
    /\ L2r = <<>>
    /\ last2r = NoTx
    /\ hist = NoHist
    /\ scan = NoScan
    /\ chan = NoChan
    /\ wl = NoRound

Init == InitLedgers /\ collationR = collation /\ calc = NoCalc

\* SC1 alone on publicchannel.
MoreSC1 == nTx1 < MaxTxSC1

NextSC1 ==
    \/ MoreSC1 /\ UNCHANGED aux /\ \E o \in Objects, pv \in PVecInputs : CreateVec(o, "owner1", pv)
    \/ MoreSC1 /\ UNCHANGED aux /\ \E u \in Users, sv \in SVecInputs : StoreUserVec(u, sv)
    \/ MoreSC1 /\ UNCHANGED aux /\ \E o \in Objects, u \in Users, ts \in TxTimestamps : DecTest(o, u, ts)

SpecSC1 == Init /\ [][NextSC1]_vars

\* SC2 alone on attrchannel.
MoreSC2 == nTx2 < MaxTxSC2

NextSC2 ==
    \/ MoreSC2 /\ UNCHANGED aux /\ \E u \in Users, c \in Categories, ch \in ChValueInputs :
                    CreateHidAtt(u, c, ch, RValueInput, AaenIdInput)
    \/ MoreSC2 /\ UNCHANGED aux /\ \E u \in Users : CreateUserVec(u)

SpecSC2 == Init /\ [][NextSC2]_vars

\* Both contracts, driven by one client for one user and one object.  The
\* client may hand StoreUserVec the vector CreateUserVec cached on SC2
\* ("called by client after CreateUserVec on SC2").
FlowUsers      == {"u1"}
FlowCategories == {CatB, Cata}

ClientVectors(u) ==
    LET rec == getState(L2, createCompositeKey("USERVEC", <<u>>))
    IN  IF rec = Empty THEN {} ELSE {rec.S}

MoreFlow == nTx1 + nTx2 < MaxTxFlow

NextFlow ==
    \/ MoreFlow /\ UNCHANGED aux /\ \E u \in FlowUsers, c \in FlowCategories, ch \in ChValueInputs :
                     CreateHidAtt(u, c, ch, RValueInput, AaenIdInput)
    \/ MoreFlow /\ UNCHANGED aux /\ \E u \in FlowUsers : CreateUserVec(u)
    \/ MoreFlow /\ UNCHANGED aux /\ \E o \in Objects, pv \in PVecInputs : CreateVec(o, "owner1", pv)
    \/ MoreFlow /\ UNCHANGED aux /\ \E u \in FlowUsers : \E sv \in SVecInputs \cup ClientVectors(u) :
                     StoreUserVec(u, sv)
    \/ MoreFlow /\ UNCHANGED aux /\ \E o \in Objects, u \in FlowUsers, ts \in TxTimestamps :
                     DecTest(o, u, ts)

SpecFlow == Init /\ [][NextFlow]_vars

\* The parameter store and the authority-key registry of SC1.  hist.init
\* keeps the parsed arguments of every successful InitLedger, oldest first;
\* hist.pkch keeps, per index, the latest blob passed to CreatePKCH and the
\* number of CreatePKCH calls for the index.
MaxTxParams == 4

PkABEInputs  == { JsonText([scheme |-> "PKABE"], FALSE),
                  JsonText([scheme |-> "PKABE-2"], TRUE),
                  NotJson("pk") }
ShamirInputs == { JsonText([t |-> 2, n |-> 3], FALSE),
                  JsonText([t |-> 3, n |-> 2], TRUE) }

\* The authority ids of the workload and the blobs it registers for one.
AaenIds == {"AA1", "AA2", "AA3"}
PkCHInputs(aaenId) == { JsonText([aaenId |-> aaenId, pk |-> "k1"], FALSE),
                        JsonText([aaenId |-> aaenId, pk |-> "k2"], TRUE) }

PkchWrites(h, index) == IF index \in DOMAIN h.pkch THEN h.pkch[index].writes ELSE 0

MoreParams == nTx1 < MaxTxParams

NextParams ==
    \/ MoreParams /\ UNCHANGED <<L2r, last2r, collationR, calc, scan, chan, wl>>
          /\ \E pk \in PkABEInputs, sh \in ShamirInputs :
                /\ InitLedger(pk, sh)
                /\ hist' = IF CanParse(pk) /\ CanParse(sh)
                           THEN [hist EXCEPT
                                   !.init = Append(@, [pkABE  |-> JSONparse(pk),
                                                       shamir |-> JSONparse(sh)])]
                           ELSE hist
    \/ MoreParams /\ UNCHANGED aux /\ ReadPKABE
    \/ MoreParams /\ UNCHANGED <<L2r, last2r, collationR, calc, scan, chan, wl>>
          /\ \E index \in AaenIds : \E blob \in PkCHInputs(index) :
                /\ CreatePKCH(index, blob)
                /\ hist' = [hist EXCEPT
                               !.pkch = (index :> [blob   |-> blob,
                                                   writes |-> PkchWrites(hist, index) + 1])
                                        @@ @]
    \/ MoreParams /\ UNCHANGED aux /\ \E index \in AaenIds : ReadPKCH(index)
    \/ MoreParams /\ UNCHANGED aux /\ GetAllPKCH

SpecParams == Init /\ [][NextParams]_vars

\* The policy store of SC1: CreateVec and GetDataMeta over two objects.
\* hist.policy keeps, per object, the raw vectors passed to CreateVec, oldest
\* first.
MaxTxPolicy == 4

PolicyObjects == {"o1", "o2"}

PolicyHistory(h, o) == IF o \in DOMAIN h.policy THEN h.policy[o] ELSE <<>>

MorePolicy == nTx1 < MaxTxPolicy

NextPolicy ==
    \/ MorePolicy /\ UNCHANGED <<L2r, last2r, collationR, calc, scan, chan, wl>>
          /\ \E o \in PolicyObjects, pv \in PVecInputs :
                /\ CreateVec(o, "owner1", pv)
                /\ hist' = [hist EXCEPT
                               !.policy = (o :> Append(PolicyHistory(hist, o), pv)) @@ @]
    \/ MorePolicy /\ UNCHANGED aux /\ \E o \in PolicyObjects : GetDataMetaTx(o)

SpecPolicy == Init /\ [][NextPolicy]_vars

\* The field arithmetic on its own: one evaluation of modP, in each contract,
\* or of innerProductMod, on arguments drawn from bounded sets.
MaxAbs    == 30
MaxVecLen == 3

FieldInts == (-MaxAbs)..MaxAbs
VecValues == {-3, 2, 10}
VecsOfLen(n) == [1..n -> VecValues]

CalcInputs ==
    {[fn |-> "modP", in |-> <<x>>, out |-> <<>>] : x \in FieldInts}
    \cup UNION {{[fn |-> "innerProductMod", in |-> <<S, P>>, out |-> <<>>] :
                   S \in VecsOfLen(n), P \in VecsOfLen(n)} : n \in 0..MaxVecLen}

InitField == InitLedgers /\ collationR = collation /\ calc \in CalcInputs

Ledgers == <<L1, L2, collation, nTx1, nTx2, last1, last2, decided, vecSince,
             L2r, last2r, collationR, hist, scan, chan, wl>>

EvalModP ==
    /\ calc.fn = "modP"
    /\ calc.out = <<>>
    /\ calc' = [calc EXCEPT !.out = <<modP(calc.in[1]), modP_SC2(calc.in[1])>>]
    /\ UNCHANGED Ledgers

EvalInnerProductMod ==
    /\ calc.fn = "innerProductMod"
    /\ calc.out = <<>>
    /\ calc' = [calc EXCEPT !.out = <<innerProductMod(calc.in[1], calc.in[2])>>]
    /\ UNCHANGED Ledgers

NextField ==
    \/ EvalModP
    \/ EvalInnerProductMod

SpecField == InitField /\ [][NextField]_vars

\* The attribute vault of SC2: CreateHidAtt and GetHiddenAttributes.
\* hist.attr keeps, per (userId, category), the values of the latest
\* CreateHidAtt and the number of CreateHidAtt calls for the pair.
MaxTxAttr == 4

AttrWrites(h, k) == IF k \in DOMAIN h.attr THEN h.attr[k].writes ELSE 0

MoreAttr == nTx2 < MaxTxAttr

NextAttr ==
    \/ MoreAttr /\ UNCHANGED <<L2r, last2r, collationR, calc, scan, chan, wl>>
          /\ \E u \in Users, c \in Categories, ch \in ChValueInputs :
                /\ CreateHidAtt(u, c, ch, RValueInput, AaenIdInput)
                /\ hist' = [hist EXCEPT
                               !.attr = (<<u, c>> :> [chValue |-> ch,
                                                      rValue  |-> RValueInput,
                                                      aaenId  |-> AaenIdInput,
                                                      writes  |->
                                                        AttrWrites(hist, <<u, c>>) + 1])
                                         @@ @]
    \/ MoreAttr /\ UNCHANGED aux /\ \E u \in Users : GetHiddenAttributesTx(u)

SpecAttr == Init /\ [][NextAttr]_vars

\* The user registry of SC2 next to the attribute records and the cached
\* vectors.  hist.users keeps, per userId, the number of CreateUser calls
\* that succeeded.
MaxTxUsers == 4

UsersCreated(h, u) == IF u \in DOMAIN h.users THEN h.users[u] ELSE 0

MoreUsers == nTx2 < MaxTxUsers

NextUsers ==
    \/ MoreUsers /\ UNCHANGED <<L2r, last2r, collationR, calc, scan, chan, wl>>
          /\ \E u \in Users :
                /\ CreateUser(u)
                /\ hist' = IF last2'.err = ""
                           THEN [hist EXCEPT
                                   !.users = (u :> (UsersCreated(hist, u) + 1)) @@ @]
                           ELSE hist
    \/ MoreUsers /\ UNCHANGED aux
          /\ \E u \in Users, c \in FlowCategories, ch \in ChValueInputs :
                CreateHidAtt(u, c, ch, RValueInput, AaenIdInput)
    \/ MoreUsers /\ UNCHANGED aux /\ \E u \in Users : CreateUserVec(u)

SpecUsers == Init /\ [][NextUsers]_vars

\* SC2 on two endorsing peers of attrchannel: both execute every transaction
\* with the same arguments; each host has its own collation.
MaxTxReplicas == 3

InitReplicas == InitLedgers /\ collationR \in Collations /\ calc = NoCalc

MoreReplicas == nTx2 < MaxTxReplicas

NextReplicas ==
    \/ MoreReplicas /\ UNCHANGED <<calc, hist, scan, chan, wl>>
          /\ \E u \in FlowUsers, c \in Categories, ch \in ChValueInputs :
                /\ CreateHidAtt(u, c, ch, RValueInput, AaenIdInput)
                /\ PeerCreateHidAtt(u, c, ch, RValueInput, AaenIdInput)
    \/ MoreReplicas /\ UNCHANGED <<calc, hist, scan, chan, wl>>
          /\ \E u \in FlowUsers : CreateUserVec(u) /\ PeerCreateUserVec(u)

SpecReplicas == InitReplicas /\ [][NextReplicas]_vars

\* Every operation of the two contracts on one channel: the eight writers
\* and the six readers.
MaxTxAll == 6

AllObjects   == {"o1", "o2"}
AllPVecInput == << <<"1">>, <<"-", "1">>, <<"0">> >>
AllSVecInput == << <<"1">>, <<"2">>, <<"3">> >>
AllTimestamp == [seconds |-> 1, nanos |-> 0]

MoreAll == nTx1 + nTx2 < MaxTxAll

NextAll ==
    \/ MoreAll /\ UNCHANGED aux
          /\ InitLedger(JsonText([scheme |-> "PKABE"], FALSE), JsonText([t |-> 2, n |-> 3], FALSE))
    \/ MoreAll /\ UNCHANGED aux
          /\ CreatePKCH("AA1", JsonText([aaenId |-> "AA1", pk |-> "k1"], FALSE))
    \/ MoreAll /\ UNCHANGED aux /\ \E o \in AllObjects : CreateVec(o, "owner1", AllPVecInput)
    \/ MoreAll /\ UNCHANGED aux /\ \E u \in FlowUsers : StoreUserVec(u, AllSVecInput)
    \/ MoreAll /\ UNCHANGED aux /\ \E o \in AllObjects, u \in FlowUsers : DecTest(o, u, AllTimestamp)
    \/ MoreAll /\ UNCHANGED aux /\ \E u \in FlowUsers : CreateUser(u)
    \/ MoreAll /\ UNCHANGED aux
          /\ \E u \in FlowUsers : CreateHidAtt(u, CatB, <<"2">>, RValueInput, AaenIdInput)
    \/ MoreAll /\ UNCHANGED aux /\ \E u \in FlowUsers : CreateUserVec(u)
    \/ MoreAll /\ UNCHANGED aux /\ ReadPKABE
    \/ MoreAll /\ UNCHANGED aux /\ ReadPKCH("AA1")
    \/ MoreAll /\ UNCHANGED aux /\ GetAllPKCH
    \/ MoreAll /\ UNCHANGED aux /\ \E o \in AllObjects : GetDataMetaTx(o)
    \/ MoreAll /\ UNCHANGED aux /\ \E u \in FlowUsers : ReadUserVecTx(u)
    \/ MoreAll /\ UNCHANGED aux /\ \E u \in FlowUsers : GetHiddenAttributesTx(u)

SpecAll == Init /\ [][NextAll]_vars

\* The two range queries, one pass through the loop at a time.  The iterator
\* of stub.getStateByPartialCompositeKey comes in two kinds, after the shim
\* version: one hands out the last entry together with done = true, the other
\* answers done = true without a value once the entries are used up.
MaxTxScan == 4

Shims == {"doneWithLast", "doneAfterLast"}

\* await iterator.next()
IteratorNext(shim, entries) ==
    IF Len(entries) = 0
    THEN [hasValue |-> FALSE, done |-> TRUE, rest |-> <<>>]
    ELSE [hasValue |-> TRUE, value |-> Head(entries),
          done |-> (shim = "doneWithLast" /\ Len(entries) = 1),
          rest |-> Tail(entries)]

\* The blobs a client may hand to CreatePKCH, which stores them unread.
ScanPkCHInputs(aaenId) == { JsonText([aaenId |-> aaenId, pk |-> "k1"], FALSE),
                            NotJson("pk") }

\* An entry of the PKCH registry is the blob as it was stored; an entry of
\* the ATTR namespace is the output of JSON.stringify in CreateHidAtt.
EntryParses(fn, buf) == IF fn = "GetAllPKCH" THEN CanParse(buf) ELSE TRUE
EntryValue(fn, buf)  == IF fn = "GetAllPKCH" THEN JSONparse(buf) ELSE buf
ScanReturn(fn, res)  == IF fn = "GetAllPKCH" THEN JSONstringify(res) ELSE res

\* const iterator = await ctx.stub.getStateByPartialCompositeKey(..); const res = []
ScanOpen(fn, args, shim, entries) ==
    /\ scan.pc = "idle"
    /\ scan' = [fn |-> fn, args |-> args, pc |-> "loop", shim |-> shim,
                entries |-> entries, all |-> entries, res |-> <<>>,
                opened |-> 1, closed |-> 0]
    /\ UNCHANGED <<L1, L2, collation, nTx1, nTx2, last1, last2, decided, vecSince>>

\* The transaction's outcome as the peer records it.
ScanOutcome(fn, outcome) ==
    IF fn = "GetAllPKCH"
    THEN /\ nTx1' = nTx1 + 1
         /\ last1' = outcome
         /\ UNCHANGED <<nTx2, last2>>
    ELSE /\ nTx2' = nTx2 + 1
         /\ last2' = outcome
         /\ UNCHANGED <<nTx1, last1>>

\* One pass through while (true): next(), the push of the parsed entry, and,
\* on done, close() and the return.  A SyntaxError of JSON.parse leaves the
\* function at once.
ScanStep ==
    LET r == IteratorNext(scan.shim, scan.entries)
    IN  /\ scan.pc = "loop"
        /\ IF r.hasValue /\ ~EntryParses(scan.fn, r.value)
           THEN /\ scan' = [scan EXCEPT !.entries = r.rest, !.pc = "thrown"]
                /\ ScanOutcome(scan.fn, Err(scan.fn, scan.args, "SyntaxError"))
           ELSE LET res == IF r.hasValue
                           THEN Append(scan.res, EntryValue(scan.fn, r.value))
                           ELSE scan.res
                IN  IF r.done
                    THEN /\ scan' = [scan EXCEPT !.entries = r.rest, !.res = res,
                                                 !.closed = @ + 1, !.pc = "returned"]
                         /\ ScanOutcome(scan.fn, Ok(scan.fn, scan.args, ScanReturn(scan.fn, res)))
                    ELSE /\ scan' = [scan EXCEPT !.entries = r.rest, !.res = res]
                         /\ UNCHANGED <<nTx1, nTx2, last1, last2>>
        /\ UNCHANGED <<L1, L2, collation, decided, vecSince>>

\* The transaction is over; the peer takes the next one.
ScanEnd ==
    /\ scan.pc \in {"returned", "thrown"}
    /\ scan' = NoScan
    /\ UNCHANGED <<L1, L2, collation, nTx1, nTx2, last1, last2, decided, vecSince>>

MoreScan == scan.pc = "idle" /\ nTx1 + nTx2 < MaxTxScan

others == <<L2r, last2r, collationR, calc, hist, chan, wl>>

NextScan ==
    \/ MoreScan /\ UNCHANGED aux
          /\ \E index \in {"AA1", "AA2"} : \E blob \in ScanPkCHInputs(index) : CreatePKCH(index, blob)
    \/ MoreScan /\ UNCHANGED aux
          /\ \E u \in Users, c \in FlowCategories :
                CreateHidAtt(u, c, <<"2">>, RValueInput, AaenIdInput)
    \/ MoreScan /\ UNCHANGED others
          /\ \E shim \in Shims : ScanOpen("GetAllPKCH", <<>>, shim, ScanPKCH(L1))
    \/ MoreScan /\ UNCHANGED others
          /\ \E shim \in Shims, u \in Users :
                ScanOpen("GetHiddenAttributes", <<u>>, shim, ScanAttr(L2, u))
    \/ UNCHANGED others /\ ScanStep
    \/ UNCHANGED others /\ ScanEnd

SpecScan == Init /\ [][NextScan]_vars

\* A query that was started runs on: the peer does not abandon a transaction.
SpecScanFair == SpecScan /\ WF_vars(UNCHANGED others /\ ScanStep)

\* ------------------------------------------------- scripts/createChannel.sh

\* One run of the script: the genesis block, createChannel, then joinChannel
\* for one peer after the other.  The commands it calls (configtxgen, the
\* sourced orderer scripts, peer channel join) end with a status of their own.
MaxRetry == 3
MaxJoins == 2

Statuses == {0, 1}

\* verifyResult: fatalln ends the script unless the status is 0.
verifyResult(status, pcOk) == IF status # 0 THEN "fatal" ELSE pcOk

\* while [ $rc -ne 0 -a $COUNTER -lt $MAX_RETRY ]
LoopCondition == chan.rc # 0 /\ chan.COUNTER < chan.MAX_RETRY

\* $? after ". scripts/orderer.sh; if [ $bft_true -eq 1 ]; then ...; fi": the
\* status of an if command is that of the last command it ran, and 0 when
\* no branch was taken.
OrdererStatus(bft, statuses) == IF bft = 1 THEN statuses[4] ELSE 0

notChan == <<L1, L2, collation, nTx1, nTx2, last1, last2, decided, vecSince,
             L2r, last2r, collationR, calc, hist, scan, wl>>

\* The script is started with its arguments and runs
\* createChannelGenesisBlock; then it enters createChannel.
ChanStart(maxRetry, bft, configtxgen) ==
    /\ chan.pc = "idle"
    /\ chan' = [pc |-> verifyResult(configtxgen, "createChannel"),
                fn |-> IF configtxgen # 0 THEN "createChannelGenesisBlock"
                       ELSE "createChannel",
                MAX_RETRY |-> maxRetry, BFT |-> bft, res |-> configtxgen,
                rc |-> 1, COUNTER |-> 1, attempts |-> <<>>, slept |-> 0,
                joins |-> 0]
    /\ UNCHANGED notChan

\* One pass through the loop of createChannel.
CreateChannelAttempt(statuses) ==
    /\ chan.pc = "createChannel"
    /\ LoopCondition
    /\ Len(statuses) = IF chan.BFT = 1 THEN 4 ELSE 1
    /\ LET res == OrdererStatus(chan.BFT, statuses)
       IN  chan' = [chan EXCEPT !.slept = @ + 1, !.res = res, !.rc = res,
                                !.COUNTER = @ + 1,
                                !.attempts = Append(@, statuses)]
    /\ UNCHANGED notChan

\* The loop of createChannel is left: verifyResult $res "Channel creation failed".
CreateChannelVerify ==
    /\ chan.pc = "createChannel"
    /\ ~LoopCondition
    /\ chan' = [chan EXCEPT !.pc = verifyResult(chan.res, "created")]
    /\ UNCHANGED notChan

\* joinChannel ORG for the next peer: local rc=1, local COUNTER=1.
JoinStart ==
    /\ chan.pc \in {"created", "joined"}
    /\ chan.joins < MaxJoins
    /\ chan' = [chan EXCEPT !.pc = "joinChannel", !.fn = "joinChannel",
                            !.rc = 1, !.COUNTER = 1, !.attempts = <<>>,
                            !.slept = 0, !.joins = @ + 1]
    /\ UNCHANGED notChan

\* One pass through the loop of joinChannel.
JoinAttempt(status) ==
    /\ chan.pc = "joinChannel"
    /\ LoopCondition
    /\ chan' = [chan EXCEPT !.slept = @ + 1, !.res = status, !.rc = status,
                            !.COUNTER = @ + 1,
                            !.attempts = Append(@, <<status>>)]
    /\ UNCHANGED notChan

\* The loop of joinChannel is left: verifyResult $res "After $MAX_RETRY attempts, ...".
JoinVerify ==
    /\ chan.pc = "joinChannel"
    /\ ~LoopCondition
    /\ chan' = [chan EXCEPT !.pc = verifyResult(chan.res, "joined")]
    /\ UNCHANGED notChan

OrdererStatuses == {<<s>> : s \in Statuses}
                       \cup {<<s1, s2, s3, s4>> : s1 \in Statuses, s2 \in Statuses,
                                                  s3 \in Statuses, s4 \in Statuses}

NextChannel ==
    \/ \E maxRetry \in 1..MaxRetry, bft \in {0, 1}, configtxgen \in Statuses :
          ChanStart(maxRetry, bft, configtxgen)
    \/ \E statuses \in OrdererStatuses : CreateChannelAttempt(statuses)
    \/ CreateChannelVerify
    \/ JoinStart
    \/ \E status \in Statuses : JoinAttempt(status)
    \/ JoinVerify

SpecChannel == Init /\ [][NextChannel]_vars

\* The shell runs the script on to its end.
SpecChannelFair == SpecChannel /\ WF_vars(NextChannel)

\* ============================================================== properties

\* The spec's vocabulary for the errors the contracts throw.
VectorNotFound    == {"No S vector for user", "No DATA meta for object"}
DimensionMismatch == "Inner product length mismatch"
NoAttributes      == "No hidden attributes for user"

\* The mathematical residue of x modulo p.
Normalize(x) == x % PRIME_P

RECURSIVE SumOfProducts(_, _, _)
SumOfProducts(S, P, n) ==
    IF n = 0 THEN 0
    ELSE SumOfProducts(S, P, n - 1) + Normalize(S[n]) * Normalize(P[n])

\* sum_i normalize(S[i]) * normalize(P[i]) mod p, reduced once at the end.
InnerProductSpec(S, P) == SumOfProducts(S, P, Len(S)) % PRIME_P

SKey(u)          == <<"S", u>>
DataKey(o)       == <<"DATA", o>>
AccessKey(o, u, tx) == <<"ACCESS", o, u, tx>>
AccessLastKey(o, u) == <<"ACCESS_LAST", o, u>>
UserVecKey(u)    == <<"USERVEC", u>>

StoredS(u) == Map(L1[SKey(u)].S, BigInt)
StoredP(o) == Map(L1[DataKey(o)].policyVector, BigInt)

\* This step is the SC1 transaction DecTest(o, u).
DecTestStep(o, u) ==
    /\ nTx1' = nTx1 + 1
    /\ last1'.fn = "DecTest"
    /\ last1'.args = <<o, u>>

DecTestSucceeded == last1.fn = "DecTest" /\ last1.err = ""

AccessKeys(L) == {k \in DOMAIN L : k[1] = "ACCESS"}
AccessKeysOf(L, o, u) == {k \in AccessKeys(L) : k[2] = o /\ k[3] = u}

\* ----------------------------------------------------------------------- C1
\* C1: after every successful DecTest(o, u) the returned record's
\* innerProduct is (sum_i normalize(S[i]) * normalize(P[i])) mod p for the
\* stored S of u and P of o, it lies in [0, p), and allowed is true exactly
\* when it is 0.
C1_InnerProduct ==
    DecTestSucceeded =>
        LET S  == StoredS(last1.args[2])
            P  == StoredP(last1.args[1])
            ip == BigInt(last1.ret.innerProduct)
        IN  /\ Len(S) = Len(P)
            /\ ip = InnerProductSpec(S, P)
            /\ ip \in 0..(PRIME_P - 1)
            /\ last1.ret.innerProduct = NatToString(ip)
            /\ last1.ret.allowed = (ip = 0)

\* A pair has been decided both ways: one record allowed, one denied.
C1_Witness ==
    /\ DecTestSucceeded
    /\ \E k1, k2 \in AccessKeys(L1) :
          /\ L1[k1].allowed /\ L1[k1].innerProduct = <<"0">>
          /\ ~L1[k2].allowed /\ L1[k2].innerProduct # <<"0">>

\* ----------------------------------------------------------------------- C2
\* C2: a DecTest(o, u) that finds a stored S and a stored P of different
\* lengths fails with DimensionMismatch and leaves the whole L1 world state
\* (AccessRecords and LatestAccessPointers included) as it was.
C2_DimensionMismatch ==
    [][\A o \in Objects, u \in Users :
          (/\ DecTestStep(o, u)
           /\ SKey(u) \in DOMAIN L1
           /\ DataKey(o) \in DOMAIN L1
           /\ Len(StoredS(u)) # Len(StoredP(o)))
          => (last1'.err = DimensionMismatch /\ L1' = L1)]_vars

\* A DecTest has failed on S shorter than P while the pair already had a
\* decision on record.
C2_Witness ==
    /\ last1.fn = "DecTest"
    /\ last1.err = DimensionMismatch
    /\ AccessLastKey(last1.args[1], last1.args[2]) \in DOMAIN L1
    /\ Len(StoredS(last1.args[2])) < Len(StoredP(last1.args[1]))

\* ----------------------------------------------------------------------- C3
\* C3: a DecTest(o, u) with no S stored for u or no policy vector stored for
\* o fails with VectorNotFound and writes nothing to L1.
C3_VectorNotFound ==
    [][\A o \in Objects, u \in Users :
          (/\ DecTestStep(o, u)
           /\ (SKey(u) \notin DOMAIN L1 \/ DataKey(o) \notin DOMAIN L1))
          => (last1'.err \in VectorNotFound /\ L1' = L1)]_vars

\* A DecTest has failed because the object has no policy vector although
\* the requester's S is stored.
C3_Witness ==
    /\ last1.fn = "DecTest"
    /\ last1.err = "No DATA meta for object"
    /\ SKey(last1.args[2]) \in DOMAIN L1
    /\ DataKey(last1.args[1]) \notin DOMAIN L1

\* ----------------------------------------------------------------------- C4
\* The UserVector CreateUserVec cached for u on SC2, as numbers (<<>> if none).
CachedS(u) ==
    IF UserVecKey(u) \in DOMAIN L2 THEN Map(L2[UserVecKey(u)].S, BigInt) ELSE <<>>

\* C4 as stated: once CreateUserVec has cached a UserVector for u and o has
\* a policy vector of the same length, DecTest(o, u) succeeds and its
\* innerProduct is computed from the cached vector.
C4_DecideUsesCachedUserVector ==
    [][\A o \in Objects, u \in FlowUsers :
          (/\ DecTestStep(o, u)
           /\ UserVecKey(u) \in DOMAIN L2
           /\ DataKey(o) \in DOMAIN L1
           /\ Len(CachedS(u)) = Len(StoredP(o)))
          => /\ last1'.err = ""
             /\ BigInt(last1'.ret.innerProduct) = InnerProductSpec(CachedS(u), StoredP(o))]_vars

\* C4 amended: DecTest reads S only from the L1 key S that StoreUserVec
\* writes, never from the UserVector cached on SC2.  Without a StoreUserVec
\* for u it fails with VectorNotFound even when the UserVector is cached;
\* once StoreUserVec has stored the vector CreateUserVec returned and o has
\* a policy vector of the same length, it succeeds and its innerProduct is
\* computed from that vector.
C4_DecideUsesStoredS ==
    [][\A o \in Objects, u \in FlowUsers :
          DecTestStep(o, u) =>
            /\ SKey(u) \notin DOMAIN L1 => last1'.err = "No S vector for user"
            /\ (/\ UserVecKey(u) \in DOMAIN L2
                /\ SKey(u) \in DOMAIN L1
                /\ L1[SKey(u)].S = L2[UserVecKey(u)].S
                /\ DataKey(o) \in DOMAIN L1
                /\ Len(CachedS(u)) = Len(StoredP(o)))
               => /\ last1'.err = ""
                  /\ BigInt(last1'.ret.innerProduct)
                       = InnerProductSpec(CachedS(u), StoredP(o))]_vars

\* DecTest has succeeded for a user whose stored S is the cached UserVector,
\* while a vector from another source would have had a different verdict.
C4_Witness ==
    /\ DecTestSucceeded
    /\ UserVecKey(last1.args[2]) \in DOMAIN L2
    /\ L1[SKey(last1.args[2])].S = L2[UserVecKey(last1.args[2])].S
    /\ vecSince[last1.args[2]].S = L1[SKey(last1.args[2])].S
    /\ ~last1.ret.allowed

\* ----------------------------------------------------------------------- C5
\* C5: the audit trail is append-only.  Every successful DecTest(o, u) adds
\* exactly one AccessRecord, under the new key (o, u, txId), holding the
\* returned record; no step removes or changes an AccessRecord already
\* written; and a pair has as many AccessRecords as it has had successful
\* DecTest calls.
C5_AppendOnly ==
    [][/\ \A k \in AccessKeys(L1) : k \in DOMAIN L1' /\ L1'[k] = L1[k]
       /\ IF nTx1' = nTx1 + 1 /\ last1'.fn = "DecTest" /\ last1'.err = ""
          THEN LET k == AccessKey(last1'.args[1], last1'.args[2], last1'.ret.txId)
               IN  /\ k \notin DOMAIN L1
                   /\ AccessKeys(L1') = AccessKeys(L1) \cup {k}
                   /\ L1'[k] = last1'.ret
          ELSE AccessKeys(L1') = AccessKeys(L1)
       /\ \A o \in Objects, u \in Users :
             Cardinality(AccessKeysOf(L1', o, u)) = Len(decided'[<<o, u>>])]_vars

\* A pair has two AccessRecords and a later transaction has overwritten the
\* S or the policy vector they were decided from.
C5_Witness ==
    /\ last1.fn \in {"CreateVec", "StoreUserVec"}
    /\ \E o \in Objects, u \in Users : Cardinality(AccessKeysOf(L1, o, u)) >= 2

\* ----------------------------------------------------------------------- C6
\* C6: for every pair with a successful DecTest, the LatestAccessPointer is
\* the AccessRecord of the pair's most recent successful DecTest, field for
\* field; after two DecTest calls for a pair there are two distinct
\* AccessRecords and the pointer equals the second.
C6_LatestPointer ==
    \A o \in Objects, u \in Users :
        LET txs == decided[<<o, u>>]
        IN  txs # <<>> =>
              LET n   == Len(txs)
                  ptr == getState(L1, AccessLastKey(o, u))
                  rec == getState(L1, AccessKey(o, u, txs[n]))
              IN  /\ rec # Empty
                  /\ ptr = rec
                  /\ ptr.allowed = rec.allowed
                  /\ ptr.innerProduct = rec.innerProduct
                  /\ ptr.txId = txs[n]
                  /\ ptr.timestamp = rec.timestamp
                  /\ n >= 2 =>
                        /\ txs[n - 1] # txs[n]
                        /\ AccessKey(o, u, txs[n - 1]) \in DOMAIN L1

\* A pair was decided twice with different verdicts and timestamps.
C6_Witness ==
    \E o \in Objects, u \in Users :
        LET txs == decided[<<o, u>>]
        IN  /\ Len(txs) >= 2
            /\ L1[AccessKey(o, u, txs[Len(txs) - 1])].allowed
                 # L1[AccessKey(o, u, txs[Len(txs)])].allowed
            /\ L1[AccessKey(o, u, txs[Len(txs) - 1])].timestamp
                 # L1[AccessKey(o, u, txs[Len(txs)])].timestamp

\* ------------------------------------------------------------------ C7..C10
CreateUserVecSucceeded == last2.fn = "CreateUserVec" /\ last2.err = ""

\* This step is the SC2 transaction CreateUserVec(u).
CreateUserVecStep(u) ==
    /\ nTx2' = nTx2 + 1
    /\ last2'.fn = "CreateUserVec"
    /\ last2'.args = <<u>>

\* The HiddenAttribute records stored for u.
AttrsOf(u) == {L2[k] : k \in {x \in DOMAIN L2 : x[1] = "ATTR" /\ x[2] = u}}

\* The records of a set in ordinary lexicographic order of category.
RECURSIVE InLexOrder(_)
InLexOrder(as) ==
    IF as = {} THEN <<>>
    ELSE LET a == CHOOSE x \in as :
                    \A y \in as : CodeUnitCompare(x.category, y.category) <= 0
         IN  <<a>> \o InLexOrder(as \ {a})

\* ch[0..n-1]: the normalized values of u's attributes in canonical order.
CanonicalCh(u) == Map(InLexOrder(AttrsOf(u)), LAMBDA a : Normalize(BigInt(a.chValue)))

RECURSIVE Product(_, _)
Product(ch, n) == IF n = 0 THEN 1 ELSE Product(ch, n - 1) * ch[n]

\* The index pairs (i, j), i < j, in the order (1,2), (1,3), ..., (2,3), ...
RECURSIVE PairsInOrder(_)
PairsInOrder(ps) ==
    IF ps = {} THEN <<>>
    ELSE LET q == CHOOSE x \in ps :
                    \A y \in ps : x[1] < y[1] \/ (x[1] = y[1] /\ x[2] <= y[2])
         IN  <<q>> \o PairsInOrder(ps \ {q})

IndexPairs(n) == PairsInOrder({q \in (1..n) \X (1..n) : q[1] < q[2]})

\* [prod of all] ++ [ch[i]*ch[j], i<j] ++ [ch[0..n-1]] ++ [1], all mod p.
TransformSpec(ch) ==
    <<Product(ch, Len(ch)) % PRIME_P>>
    \o Map(IndexPairs(Len(ch)), LAMBDA q : (ch[q[1]] * ch[q[2]]) % PRIME_P)
    \o ch
    \o <<1>>

\* ----------------------------------------------------------------------- C7
\* C7: a successful CreateUserVec(u) returns, and caches under the
\* UserVector key of u, exactly the transform of u's normalized attribute
\* values taken in canonical (lexicographic) category order.
C7_TransformInCanonicalOrder ==
    CreateUserVecSucceeded =>
        LET u == last2.args[1]
        IN  /\ Map(last2.ret.S, BigInt) = TransformSpec(CanonicalCh(u))
            /\ L2[UserVecKey(u)] = last2.ret

\* ----------------------------------------------------------------------- C8
\* C8: CreateUserVec indexes the attributes in ordinary lexicographic order
\* of category: the singles segment of the returned S lists the normalized
\* values in that order, for every mix of upper case, lower case and digits.
C8_LexicographicIndex ==
    CreateUserVecSucceeded =>
        LET u == last2.args[1]
            S == Map(last2.ret.S, BigInt)
            n == Cardinality(AttrsOf(u))
        IN  SubSeq(S, Len(S) - n, Len(S) - 1) = CanonicalCh(u)

\* ----------------------------------------------------------------------- C9
\* C9: CreateUserVec(u) for a user with n >= 1 stored attributes succeeds
\* and returns a vector of length 2 + n + n(n-1)/2; for n = 1 it is
\* [ch0, ch0, 1].
C9_DimensionLaw ==
    last2.fn = "CreateUserVec" =>
        LET u == last2.args[1]
            n == Cardinality(AttrsOf(u))
        IN  n >= 1 =>
              /\ last2.err = ""
              /\ Len(last2.ret.S) = 2 + n + ((n * (n - 1)) \div 2)
              /\ n = 1 =>
                    LET ch0 == Normalize(BigInt((CHOOSE a \in AttrsOf(u) : TRUE).chValue))
                    IN  Map(last2.ret.S, BigInt) = <<ch0, ch0, 1>>

\* CreateUserVec has returned the 8-element vector of a user with three
\* attributes.
C9_Witness ==
    /\ CreateUserVecSucceeded
    /\ Cardinality(AttrsOf(last2.args[1])) = 3
    /\ Len(last2.ret.S) = 8

\* ---------------------------------------------------------------------- C10
\* C10: a CreateUserVec(u) that follows an earlier successful one with no
\* CreateHidAtt for u in between returns the same vector and leaves the
\* cached UserVector as it was, whatever was executed in between.
C10_Idempotent ==
    [][\A u \in Users :
          (CreateUserVecStep(u) /\ vecSince[u].calls >= 1)
          => /\ last2'.err = ""
             /\ last2'.ret.S = vecSince[u].S
             /\ L2'[UserVecKey(u)] = L2[UserVecKey(u)]
             /\ L2' = L2]_vars

\* CreateUserVec(u) has succeeded twice since u's latest CreateHidAtt, on a
\* ledger that also holds attributes of another user.
C10_Witness ==
    /\ CreateUserVecSucceeded
    /\ vecSince[last2.args[1]].calls = 2
    /\ \E v \in Users \ {last2.args[1]} : AttrsOf(v) # {}

\* ---------------------------------------------------------------------- C11
\* C11: a CreateUserVec(u) executed while no ATTR record of u is stored
\* fails with NoAttributes and leaves the whole world state of SC2 as it
\* was: no USERVEC record is written and none is altered.
C11_NoAttributes ==
    [][\A u \in Users :
          (CreateUserVecStep(u) /\ AttrsOf(u) = {})
          => /\ last2'.err = NoAttributes
             /\ L2' = L2]_vars

\* CreateUserVec has just failed for a user without attributes while another
\* user has attributes and a USERVEC record in the same world state.
C11_Witness ==
    /\ last2.fn = "CreateUserVec"
    /\ last2.err = NoAttributes
    /\ AttrsOf(last2.args[1]) = {}
    /\ \E v \in Users : v # last2.args[1] /\ AttrsOf(v) # {} /\ UserVecKey(v) \in DOMAIN L2

\* ---------------------------------------------------------------------- C12
\* C12: two peers that start from the same world state and execute the
\* same transactions return the same values and hold the same world state
\* after every transaction, whatever each host's collation is.
C12_ReplicaDeterminism == last2r = last2 /\ L2r = L2

\* ---------------------------------------------------------------------- C13
\* C13: a successful GetDataMeta(o) returns a policy vector as long as the
\* raw vector of the latest CreateVec for o, whose i-th element is the
\* canonical decimal of normalize(raw[i]); vectors set earlier for o leave no
\* trace.  GetDataMeta(o) fails exactly when no CreateVec for o has happened.
GetDataMetaCalled == last1.fn = "GetDataMeta"

C13_PolicyRoundTrip ==
    GetDataMetaCalled =>
        LET o    == last1.args[1]
            sets == PolicyHistory(hist, o)
            raw  == sets[Len(sets)]
            got  == last1.ret.policyVector
        IN  IF sets = <<>> THEN last1.err = "No DATA meta for object"
            ELSE /\ last1.err = ""
                 /\ Len(got) = Len(raw)
                 /\ \A i \in 1..Len(raw) :
                       got[i] = BigIntToString(Normalize(BigInt(raw[i])))

\* GetDataMeta(o) has returned the second vector set for o, which is longer
\* than the first and differs from its own raw input, while another object
\* holds a vector of its own.
C13_Witness ==
    /\ GetDataMetaCalled
    /\ last1.err = ""
    /\ LET sets == PolicyHistory(hist, last1.args[1])
       IN  /\ Len(sets) = 2
           /\ Len(sets[1]) = 2
           /\ Len(sets[2]) = 3
           /\ last1.ret.policyVector # sets[2]
    /\ \E o \in PolicyObjects : o # last1.args[1] /\ Len(PolicyHistory(hist, o)) = 1

\* ---------------------------------------------------------------------- C14
\* C14: for every integer x, negative or a multiple of p included, modP(x)
\* lies in [0, p), differs from x by a multiple of p, and is a fixed point of
\* modP; SC2's modP and modulus are the same as SC1's.
C14_Normalize ==
    (calc.fn = "modP" /\ calc.out # <<>>) =>
        LET x == calc.in[1]
            y == calc.out[1]
        IN  /\ 0 <= y
            /\ y < PRIME_P
            /\ (y - x) % PRIME_P = 0
            /\ modP(y) = y
            /\ calc.out[2] = y
            /\ PRIME_P_SC2 = PRIME_P

\* modP has been evaluated on a negative multiple of p.
C14_Witness ==
    /\ calc.fn = "modP"
    /\ calc.out # <<>>
    /\ calc.in[1] < -PRIME_P
    /\ (-calc.in[1]) % PRIME_P = 0

\* ---------------------------------------------------------------------- C15
\* C15: for vectors S and P of equal length innerProductMod(S, P) equals
\* innerProductMod(P, S), and equals the inner product of the two vectors
\* after any one permutation of the positions of both.
PositionPermutations(n) == {f \in [1..n -> 1..n] : \A i, j \in 1..n : f[i] = f[j] => i = j}
Permuted(v, f)  == [i \in 1..Len(v) |-> v[f[i]]]

C15_InnerProductSymmetric ==
    (calc.fn = "innerProductMod" /\ calc.out # <<>>) =>
        LET S  == calc.in[1]
            P  == calc.in[2]
            ip == calc.out[1]
        IN  /\ innerProductMod(P, S) = ip
            /\ \A f \in PositionPermutations(Len(S)) :
                  innerProductMod(Permuted(S, f), Permuted(P, f)) = ip

\* innerProductMod has been evaluated on two different vectors of three
\* different elements each, with a non-zero result.
C15_Witness ==
    /\ calc.fn = "innerProductMod"
    /\ calc.out # <<>>
    /\ calc.out[1] # 0
    /\ calc.in[1] # calc.in[2]
    /\ Len(calc.in[1]) = 3
    /\ Cardinality({calc.in[1][i] : i \in 1..3}) = 3
    /\ Cardinality({calc.in[2][i] : i \in 1..3}) = 3

\* ---------------------------------------------------------------------- C16
\* C16: a DecTest(o, u) executed while the stored policy vector of o has
\* only elements congruent to 0 mod p and is as long as the stored S of u
\* succeeds with allowed = true and innerProduct = "0", whatever S is.
ZeroVector(P) == \A i \in 1..Len(P) : P[i] % PRIME_P = 0

C16_ZeroPolicy ==
    [][\A o \in Objects, u \in Users :
          ( /\ DecTestStep(o, u)
            /\ SKey(u) \in DOMAIN L1
            /\ DataKey(o) \in DOMAIN L1
            /\ ZeroVector(StoredP(o))
            /\ Len(StoredP(o)) = Len(StoredS(u)) )
          => /\ last1'.err = ""
             /\ last1'.ret.allowed = TRUE
             /\ last1'.ret.innerProduct = <<"0">>]_vars

\* DecTest has just allowed a request against a zero policy vector of length
\* three for a stored S without any zero element.
C16_Witness ==
    /\ DecTestSucceeded
    /\ last1.ret.allowed
    /\ Len(StoredP(last1.args[1])) = 3
    /\ ZeroVector(StoredP(last1.args[1]))
    /\ \A i \in 1..3 : StoredS(last1.args[2])[i] # 0

\* ---------------------------------------------------------------------- C17
\* C17: the ATTR records of the world state are exactly one per
\* (userId, category) ever passed to CreateHidAtt, each holding the values
\* of the latest call for that pair; GetHiddenAttributes(u) returns exactly
\* the records of u, one per category written for u, and no record of
\* another user, also when u is a string prefix of the other user's id.
AttrKey(u, c) == <<"ATTR", u, c>>
AttrKeys(L)   == {k \in DOMAIN L : k[1] = "ATTR"}
Written(u)    == {k \in DOMAIN hist.attr : k[1] = u}

RecordOf(k) ==
    [userId |-> k[1], category |-> k[2], chValue |-> hist.attr[k].chValue,
     rValue |-> hist.attr[k].rValue, aaenId |-> hist.attr[k].aaenId]

GetHiddenAttributesCalled == last2.fn = "GetHiddenAttributes"

C17_Upsert ==
    /\ AttrKeys(L2) = {AttrKey(k[1], k[2]) : k \in DOMAIN hist.attr}
    /\ Cardinality(AttrKeys(L2)) = Cardinality(DOMAIN hist.attr)
    /\ \A k \in DOMAIN hist.attr : L2[AttrKey(k[1], k[2])] = RecordOf(k)
    /\ GetHiddenAttributesCalled =>
          LET u   == last2.args[1]
              got == last2.ret
          IN  /\ last2.err = ""
              /\ {got[i] : i \in 1..Len(got)} = {RecordOf(k) : k \in Written(u)}
              /\ Len(got) = Cardinality(Written(u))
              /\ \A i \in 1..Len(got) : got[i].userId = u

\* GetHiddenAttributes(u1) has returned the one record of u1, whose value
\* was written twice, while u12 has a record of its own.
C17_Witness ==
    /\ GetHiddenAttributesCalled
    /\ last2.args = <<"u1">>
    /\ Len(last2.ret) = 1
    /\ \A k \in Written("u1") : AttrWrites(hist, k) = 2
    /\ Written("u12") # {}

\* ---------------------------------------------------------------------- C18
\* C18 as stated: a GetHiddenAttributes(u) executed while no ATTR record of
\* u is stored fails.
C18_EmptySetFails ==
    (GetHiddenAttributesCalled /\ Written(last2.args[1]) = {}) => last2.err # ""

\* C18 as amended: GetHiddenAttributes(u) never fails; while no ATTR record
\* of u is stored it returns the empty sequence.
C18_EmptyListReturned ==
    GetHiddenAttributesCalled =>
        /\ last2.err = ""
        /\ Written(last2.args[1]) = {} => last2.ret = <<>>

\* GetHiddenAttributes has returned the empty sequence for a user without
\* records while the other user has two.
C18_Witness ==
    /\ GetHiddenAttributesCalled
    /\ Written(last2.args[1]) = {}
    /\ last2.ret = <<>>
    /\ Cardinality(DOMAIN hist.attr) = 2

\* ---------------------------------------------------------------------- C19
\* C19: the PKCH records of the world state are exactly one per index ever
\* passed to CreatePKCH, each holding the latest blob passed for it, and
\* never more than the workload has authority ids; GetAllPKCH returns one
\* record per such index, the value of its latest blob.
PkchKey(index) == <<"PKCH", index>>
PkchKeys(L)    == {k \in DOMAIN L : k[1] = "PKCH"}

GetAllPKCHCalled == last1.fn = "GetAllPKCH"

C19_RegistryBounded ==
    /\ PkchKeys(L1) = {PkchKey(index) : index \in DOMAIN hist.pkch}
    /\ Cardinality(PkchKeys(L1)) = Cardinality(DOMAIN hist.pkch)
    /\ Cardinality(PkchKeys(L1)) <= Cardinality(AaenIds)
    /\ \A index \in DOMAIN hist.pkch : L1[PkchKey(index)] = hist.pkch[index].blob
    /\ GetAllPKCHCalled =>
          LET got == JSONparse(last1.ret)
          IN  /\ last1.err = ""
              /\ Len(got) = Cardinality(DOMAIN hist.pkch)
              /\ {got[i].aaenId : i \in 1..Len(got)} = DOMAIN hist.pkch
              /\ \A i \in 1..Len(got) :
                    got[i] = JSONparse(hist.pkch[got[i].aaenId].blob)

\* GetAllPKCH has returned two records, one of them registered twice.
C19_Witness ==
    /\ GetAllPKCHCalled
    /\ last1.err = ""
    /\ Len(JSONparse(last1.ret)) = 2
    /\ \E index \in DOMAIN hist.pkch : hist.pkch[index].writes = 2

\* ---------------------------------------------------------------------- C20
NotInitialized == "PKABE not initialized"

ReadPKABECalled == last1.fn = "ReadPKABE"

LatestInit == hist.init[Len(hist.init)]

\* C20 as stated: ReadPKABE fails with NotInitialized while no InitLedger has
\* succeeded, and otherwise returns the pkABE and the shamir configuration
\* of the latest successful InitLedger.
C20_ReadReturnsSystemParams ==
    ReadPKABECalled =>
        IF hist.init = <<>> THEN last1.err = NotInitialized
        ELSE /\ last1.err = ""
             /\ JSONparse(last1.ret) = [pkABE  |-> LatestInit.pkABE,
                                        shamir |-> LatestInit.shamir]

\* C20 as amended: ReadPKABE fails with NotInitialized while no InitLedger
\* has succeeded, and otherwise returns the pkABE of the latest successful
\* InitLedger alone, serialised without white space; the shamir
\* configuration stays stored under its own key.
C20_ReadReturnsPkABE ==
    ReadPKABECalled =>
        IF hist.init = <<>> THEN last1.err = NotInitialized
        ELSE /\ last1.err = ""
             /\ last1.ret = JSONstringify(LatestInit.pkABE)
             /\ L1[<<"SYS#SHAMIR">>] = JSONstringify(LatestInit.shamir)

\* ReadPKABE has succeeded after two successful InitLedger calls with
\* different arguments.
C20_Witness ==
    /\ ReadPKABECalled
    /\ last1.err = ""
    /\ Len(hist.init) = 2
    /\ hist.init[1].pkABE # hist.init[2].pkABE
    /\ hist.init[1].shamir # hist.init[2].shamir

\* ---------------------------------------------------------------------- C21
\* C21: every InitLedger with arguments that parse succeeds, whatever is
\* stored, and leaves SYS#PKABE and SYS#SHAMIR holding its two arguments and
\* every other key as it was; when its arguments denote the values of the
\* latest successful InitLedger the world state does not change at all.  The
\* two keys are stored both or neither.
PkABEKey  == <<"SYS#PKABE">>
ShamirKey == <<"SYS#SHAMIR">>

InitLedgerStep == nTx1' = nTx1 + 1 /\ last1'.fn = "InitLedger"

C21_InitLedgerOverwrites ==
    [][/\ (PkABEKey \in DOMAIN L1') <=> (ShamirKey \in DOMAIN L1')
       /\ InitLedgerStep =>
             IF Len(hist'.init) = Len(hist.init)
             THEN last1'.err # "" /\ L1' = L1
             ELSE LET new == hist'.init[Len(hist'.init)]
                  IN  /\ last1'.err = ""
                      /\ L1'[PkABEKey] = JSONstringify(new.pkABE)
                      /\ L1'[ShamirKey] = JSONstringify(new.shamir)
                      /\ \A k \in DOMAIN L1 \ {PkABEKey, ShamirKey} :
                            k \in DOMAIN L1' /\ L1'[k] = L1[k]
                      /\ DOMAIN L1' = DOMAIN L1 \cup {PkABEKey, ShamirKey}
                      /\ (hist.init # <<>> /\ LatestInit = new) => L1' = L1]_vars

\* InitLedger has succeeded three times: the second call repeated the first,
\* the third changed both arguments.
C21_Witness ==
    /\ last1.fn = "InitLedger"
    /\ last1.err = ""
    /\ Len(hist.init) = 3
    /\ hist.init[1] = hist.init[2]
    /\ hist.init[2].pkABE # hist.init[3].pkABE
    /\ hist.init[2].shamir # hist.init[3].shamir

\* ---------------------------------------------------------------------- C22
\* C22: a CreateUser(u) executed while a USER record of u is stored fails
\* with DuplicateKey and changes no key; executed while none is stored it
\* succeeds and adds the USER record of u and nothing else.  No userId has
\* more than one successful CreateUser.
DuplicateKey == "User already exists"

UserKey(u) == <<"USER", u>>

CreateUserStep(u) ==
    /\ nTx2' = nTx2 + 1
    /\ last2'.fn = "CreateUser"
    /\ last2'.args = <<u>>

C22_DuplicateKey ==
    [][/\ \A u \in Users : UsersCreated(hist', u) <= 1
       /\ \A u \in Users :
             CreateUserStep(u) =>
                 IF UserKey(u) \in DOMAIN L2
                 THEN last2'.err = DuplicateKey /\ L2' = L2
                 ELSE /\ last2'.err = ""
                      /\ DOMAIN L2' = DOMAIN L2 \cup {UserKey(u)}
                      /\ L2'[UserKey(u)] = [userId |-> u]
                      /\ \A k \in DOMAIN L2 : L2'[k] = L2[k]]_vars

\* CreateUser has just failed for a registered user who has an attribute and
\* a cached vector.
C22_Witness ==
    /\ last2.fn = "CreateUser"
    /\ last2.err = DuplicateKey
    /\ UserVecKey(last2.args[1]) \in DOMAIN L2
    /\ UsersCreated(hist, last2.args[1]) = 1

\* ---------------------------------------------------------------------- C23
\* C23: whenever a shamir configuration is stored, its threshold t is at
\* most its number of shares n.
C23_ThresholdWithinShares ==
    ShamirKey \in DOMAIN L1 =>
        JSONparse(L1[ShamirKey]).t <= JSONparse(L1[ShamirKey]).n

\* ---------------------------------------------------------------------- C24
\* C24: every element of the policyVector of every DATA record, of the S of
\* every S record and of the S of every USERVEC record is the canonical
\* decimal of an integer in [0, p).
CanonicalResidue(e) ==
    /\ e # <<>>
    /\ \A i \in 1..Len(e) : \E d \in 1..Len(DigitChars) : DigitChars[d] = e[i]
    /\ BigInt(e) >= 0
    /\ BigInt(e) < PRIME_P
    /\ BigIntToString(BigInt(e)) = e

AllCanonical(v) == \A i \in 1..Len(v) : CanonicalResidue(v[i])

C24_StoredResidues ==
    /\ \A k \in DOMAIN L1 :
          /\ k[1] = "DATA" => AllCanonical(L1[k].policyVector)
          /\ k[1] = "S" => AllCanonical(L1[k].S)
    /\ \A k \in DOMAIN L2 : k[1] = "USERVEC" => AllCanonical(L2[k].S)

\* All three kinds of vector are stored; the cached vector comes from a
\* negative chValue, the policy vector and the S record from raw vectors
\* with a negative element.
C24_Witness ==
    /\ UserVecKey("u1") \in DOMAIN L2
    /\ \E k \in DOMAIN L2 : k[1] = "ATTR" /\ L2[k].chValue = <<"-", "2">>
    /\ DataKey("o1") \in DOMAIN L1
    /\ L1[DataKey("o1")].policyVector = << <<"1">>, <<"6">>, <<"0">> >>
    /\ SKey("u1") \in DOMAIN L1
    /\ L1[SKey("u1")].S = << <<"3">>, <<"3">>, <<"1">> >>

\* ---------------------------------------------------------------------- C25
\* C25: after every step, for every (object, requester) pair, an
\* ACCESS_LAST record exists exactly when an ACCESS record of the pair
\* exists, and it carries the txId of one of them; a DecTest either fails
\* and changes no key, or succeeds and has written both its ACCESS record
\* and the ACCESS_LAST record.
PointerMatches(L, o, u) ==
    IF AccessLastKey(o, u) \in DOMAIN L
    THEN \E k \in AccessKeysOf(L, o, u) :
            k[4] = L[AccessLastKey(o, u)].txId /\ L[k].txId = k[4]
    ELSE AccessKeysOf(L, o, u) = {}

C25_WritesTogether ==
    [][\A o \in Objects, u \in Users :
          /\ PointerMatches(L1', o, u)
          /\ DecTestStep(o, u) =>
                IF last1'.err = ""
                THEN /\ AccessKey(o, u, last1'.ret.txId) \notin DOMAIN L1
                     /\ AccessKey(o, u, last1'.ret.txId) \in DOMAIN L1'
                     /\ L1'[AccessLastKey(o, u)] = last1'.ret
                ELSE L1' = L1]_vars

\* DecTest has just failed on a length mismatch for a pair that already has
\* an ACCESS record and its pointer, while another pair has none.
C25_Witness ==
    /\ last1.fn = "DecTest"
    /\ last1.err = DimensionMismatch
    /\ AccessKeysOf(L1, last1.args[1], last1.args[2]) # {}
    /\ AccessLastKey(last1.args[1], last1.args[2]) \in DOMAIN L1
    /\ \E u \in Users : AccessKeysOf(L1, last1.args[1], u) = {}

\* ---------------------------------------------------------------------- C26
\* C26: a CreateHidAtt(u, c, ...) changes the ATTR record of (u, c) and no
\* other key, the USERVEC record of u included; a USERVEC record of u changes
\* only in a successful CreateUserVec(u), and after that step it holds the
\* transform of the attributes u has then.
CreateHidAttStep(u, c) ==
    /\ nTx2' = nTx2 + 1
    /\ last2'.fn = "CreateHidAtt"
    /\ last2'.args = <<u, c>>

SameAt(k) == (k \in DOMAIN L2') = (k \in DOMAIN L2) /\ (k \in DOMAIN L2 => L2'[k] = L2[k])

C26_StaleUntilRecomputed ==
    [][\A u \in Users :
          /\ \A c \in Categories :
                CreateHidAttStep(u, c) =>
                    /\ L2'[AttrKey(u, c)] = last2'.ret
                    /\ \A k \in (DOMAIN L2 \cup DOMAIN L2') \ {AttrKey(u, c)} : SameAt(k)
          /\ IF CreateUserVecStep(u) /\ last2'.err = ""
             THEN Map(L2'[UserVecKey(u)].S, BigInt) = TransformSpec(CanonicalCh(u)')
             ELSE SameAt(UserVecKey(u))]_vars


\* ---------------------------------------------------------------------- C27
\* The keys whose record differs between two ledgers.
ChangedKeys(L, M) ==
    {k \in DOMAIN L \cup DOMAIN M :
        \/ k \notin DOMAIN L
        \/ k \notin DOMAIN M
        \/ L[k] # M[k]}

\* The key namespaces an operation may write; a reader has none.
WriteNamespaces(fn) ==
    CASE fn = "InitLedger"    -> {"SYS#PKABE", "SYS#SHAMIR"}
      [] fn = "CreatePKCH"    -> {"PKCH"}
      [] fn = "CreateVec"     -> {"DATA"}
      [] fn = "StoreUserVec"  -> {"S"}
      [] fn = "DecTest"       -> {"ACCESS", "ACCESS_LAST"}
      [] fn = "CreateUser"    -> {"USER"}
      [] fn = "CreateHidAtt"  -> {"ATTR"}
      [] fn = "CreateUserVec" -> {"USERVEC"}
      [] OTHER                -> {}

ReadOperations == {"ReadPKABE", "ReadPKCH", "GetAllPKCH", "GetDataMeta",
                   "ReadUserVec", "GetHiddenAttributes"}

\* C27: every transaction changes keys of its own operation's namespaces
\* only, and none on the other contract's ledger; a successful DecTest(o, u)
\* changes exactly ACCESS(o, u, txId) and ACCESS_LAST(o, u); a read operation
\* changes no key.
C27_WriteSetsDisjoint ==
    [][LET ch1 == ChangedKeys(L1, L1')
           ch2 == ChangedKeys(L2, L2')
       IN  /\ nTx1' # nTx1 =>
                 /\ ch2 = {}
                 /\ \A k \in ch1 : k[1] \in WriteNamespaces(last1'.fn)
                 /\ last1'.fn \in ReadOperations => ch1 = {}
                 /\ (last1'.fn = "DecTest" /\ last1'.err = "") =>
                       ch1 = {AccessKey(last1'.args[1], last1'.args[2], last1'.ret.txId),
                              AccessLastKey(last1'.args[1], last1'.args[2])}
           /\ nTx2' # nTx2 =>
                 /\ ch1 = {}
                 /\ \A k \in ch2 : k[1] \in WriteNamespaces(last2'.fn)
                 /\ last2'.fn \in ReadOperations => ch2 = {}]_vars

\* A DecTest succeeded for one pair while the ledgers hold a policy vector,
\* a user vector, a hidden attribute and the decision records of another
\* pair.
C27_Witness ==
    /\ DecTestSucceeded
    /\ \E k \in DOMAIN L2 : k[1] = "ATTR"
    /\ \E k \in DOMAIN L1 : k[1] = "DATA"
    /\ \E k \in DOMAIN L1 : k[1] = "S"
    /\ \E k \in AccessKeys(L1) : <<k[2], k[3]>> # last1.args


\* ---------------------------------------------------------------------- C28
\* The entries a scan has taken from its iterator so far.
ScanTaken == SubSeq(scan.all, 1, Len(scan.all) - Len(scan.entries))

\* C28: a scan that returned has collected every entry of its iterator once,
\* in scan order; a scan in progress has collected the entries taken so far;
\* and once the operation is over, by return or by a parse failure, the
\* iterator it opened has been closed exactly once.
C28_ScanCollectsAndCloses ==
    /\ scan.pc \in {"loop", "returned"} =>
          scan.res = Map(ScanTaken, LAMBDA buf : EntryValue(scan.fn, buf))
    /\ scan.pc = "returned" => scan.entries = <<>>
    /\ scan.pc = "loop" => scan.closed = 0
    /\ scan.pc \in {"returned", "thrown"} => scan.closed = scan.opened

\* C28, without the path of a parse failure.
ScanClosesOnReturn ==
    /\ scan.pc \in {"loop", "returned"} =>
          scan.res = Map(ScanTaken, LAMBDA buf : EntryValue(scan.fn, buf))
    /\ scan.pc = "returned" => scan.entries = <<>> /\ scan.closed = scan.opened
    /\ scan.pc = "loop" => scan.closed = 0

\* Every scan that was opened leaves its loop.
ScanTerminates == (scan.pc = "loop") ~> (scan.pc # "loop")


\* ---------------------------------------------------------------------- C29
\* An attempt failed when one of the commands it ran ended with a status
\* other than 0.
AttemptFailed(a) == \E i \in DOMAIN a : a[i] # 0

LastAttemptFailed ==
    chan.attempts # <<>> /\ AttemptFailed(chan.attempts[Len(chan.attempts)])

InFunction(fn) == chan.pc # "idle" /\ chan.fn = fn

\* C29: in createChannel every attempt follows a sleep and runs orderer.sh
\* alone (BFT = 0) or all four orderer scripts (BFT = 1); an attempt is
\* followed by another one only if it failed; the function goes on to
\* "Channel created" only after an attempt that succeeded, and dies with
\* "Channel creation failed" only after a last attempt that failed.
C29_PollsUntilOrdererJoined ==
    InFunction("createChannel") =>
        /\ chan.slept = Len(chan.attempts)
        /\ \A i \in DOMAIN chan.attempts :
              Len(chan.attempts[i]) = IF chan.BFT = 1 THEN 4 ELSE 1
        /\ \A i \in 1..(Len(chan.attempts) - 1) : AttemptFailed(chan.attempts[i])
        /\ chan.pc = "created" /\ chan.attempts # <<>> => ~LastAttemptFailed
        /\ chan.pc = "fatal" => LastAttemptFailed

\* ---------------------------------------------------------------------- C30
\* C30: in joinChannel no attempt follows one that succeeded, at most
\* MAX_RETRY attempts are made, the function dies only after exactly
\* MAX_RETRY attempts that all failed, and it goes on only after an attempt
\* that succeeded.
C30_JoinRetries ==
    InFunction("joinChannel") =>
        /\ \A i \in 1..(Len(chan.attempts) - 1) : AttemptFailed(chan.attempts[i])
        /\ Len(chan.attempts) <= chan.MAX_RETRY
        /\ chan.pc = "fatal" =>
              /\ Len(chan.attempts) = chan.MAX_RETRY
              /\ LastAttemptFailed
        /\ chan.pc = "joined" => chan.attempts # <<>> /\ ~LastAttemptFailed

\* What joinChannel does: MAX_RETRY - 1 attempts at most.
JoinRetriesOneShort ==
    InFunction("joinChannel") =>
        /\ \A i \in 1..(Len(chan.attempts) - 1) : AttemptFailed(chan.attempts[i])
        /\ Len(chan.attempts) <= chan.MAX_RETRY - 1
        /\ chan.pc = "fatal" =>
              /\ Len(chan.attempts) = chan.MAX_RETRY - 1
              /\ LastAttemptFailed
        /\ chan.pc = "joined" /\ chan.attempts # <<>> => ~LastAttemptFailed

\* Every loop of the script is left.
ChanTerminates ==
    (chan.pc \in {"createChannel", "joinChannel"})
        ~> (chan.pc \in {"created", "joined", "fatal"})


\* ------------------------------------------ caliper-eddac/workloads/eddac-tx.js

\* A round of the benchmark with the workers' modules: Caliper awaits
\* initializeWorkloadModule of a worker, then calls its submitTransaction at
\* the round's rate.  A request is the contract's transaction on the ledger.
MaxSubmit == 2

\* this.args.attrCount: left out (undefined) or a count.
AttrCountArgs == { [given |-> FALSE, n |-> 0],
                   [given |-> TRUE,  n |-> 0],
                   [given |-> TRUE,  n |-> 2] }

\* Number(this.args.attrCount || 10)
AttrCountOf(arg) == IF ~arg.given \/ arg.n = 0 THEN 10 ELSE arg.n

\* const S = ['11', ..., '88'] and const P = ['1', ..., '8']
WorkloadS == [i \in 1..8 |-> NatToString(11 * i)]
WorkloadP == [i \in 1..8 |-> NatToString(i)]

NewWorker == [pc |-> "new", prefix |-> "", userId |-> "", objectId |-> "",
              i |-> 0, txIndex |-> 0, setup |-> <<>>, measured |-> <<>>,
              written |-> {}]

Request(last) == [fn |-> last.fn, args |-> last.args, err |-> last.err]

roundFrame == <<L2r, last2r, collationR, calc, hist, scan, chan>>

\* The round starts with its arguments.
RoundStart(txType, roundIndex, attrCount) ==
    /\ wl.txType = ""
    /\ wl' = [txType |-> txType, roundIndex |-> roundIndex, attrCount |-> attrCount,
              workers |-> [w \in WorkerIndexes |-> NewWorker]]
    /\ UNCHANGED <<L1, L2, collation, nTx1, nTx2, last1, last2, decided, vecSince>>

\* initializeWorkloadModule up to its first request: prefix, userId, objectId.
InitializeModule(w, now, rand) ==
    LET prefix == PrefixString(wl.txType, wl.roundIndex, w, now, rand)
        count  == AttrCountOf(wl.attrCount)
    IN  /\ wl.txType # ""
        /\ wl.workers[w].pc = "new"
        /\ wl' = [wl EXCEPT !.workers[w] =
                     [@ EXCEPT !.prefix = prefix,
                               !.userId = prefix \o "_user",
                               !.objectId = prefix \o "_obj",
                               !.pc = IF wl.txType = "TransAttToVecTx" /\ ~(0 < count)
                                      THEN "ready" ELSE "setup"]]
        /\ UNCHANGED <<L1, L2, collation, nTx1, nTx2, last1, last2, decided, vecSince>>

\* One pass through the loop of SetHidAttTx requests.
SetupSetHidAtt(w) ==
    LET me    == wl.workers[w]
        count == AttrCountOf(wl.attrCount)
    IN  /\ wl.txType = "TransAttToVecTx"
        /\ me.pc = "setup"
        /\ me.i < count
        /\ CreateHidAtt(me.userId, <<99>> \o NatUnits(me.i), NatToString(1000 + me.i),
                        NatToString(2000 + me.i), "aaen_" \o me.prefix)
        /\ wl' = [wl EXCEPT !.workers[w] =
                     [@ EXCEPT !.i = @ + 1,
                               !.setup = Append(@, Request(last2')),
                               !.written = @ \cup ChangedKeys(L2, L2'),
                               !.pc = IF me.i + 1 < count THEN "setup" ELSE "ready"]]

\* The StoreUserVec request of a DecTestTx round.
SetupStoreUserVec(w) ==
    LET me == wl.workers[w]
    IN  /\ wl.txType = "DecTestTx"
        /\ me.pc = "setup"
        /\ me.i = 0
        /\ StoreUserVec(me.userId, WorkloadS)
        /\ wl' = [wl EXCEPT !.workers[w] =
                     [@ EXCEPT !.i = 1,
                               !.setup = Append(@, Request(last1')),
                               !.written = @ \cup ChangedKeys(L1, L1')]]

\* The SetPolicyVecTx request of a DecTestTx round; the module is ready.
SetupSetPolicyVec(w) ==
    LET me == wl.workers[w]
    IN  /\ wl.txType = "DecTestTx"
        /\ me.pc = "setup"
        /\ me.i = 1
        /\ CreateVec(me.objectId, "owner1", WorkloadP)
        /\ wl' = [wl EXCEPT !.workers[w] =
                     [@ EXCEPT !.i = 2,
                               !.setup = Append(@, Request(last1')),
                               !.written = @ \cup ChangedKeys(L1, L1'),
                               !.pc = "ready"]]

\* submitTransaction of a DecTestTx round.
SubmitDecTestTx(w) ==
    LET me == wl.workers[w]
    IN  /\ wl.txType = "DecTestTx"
        /\ me.pc = "ready"
        /\ me.txIndex < MaxSubmit
        /\ DecTest(me.objectId, me.userId, AllTimestamp)
        /\ wl' = [wl EXCEPT !.workers[w] =
                     [@ EXCEPT !.txIndex = @ + 1,
                               !.measured = Append(@, Request(last1')),
                               !.written = @ \cup ChangedKeys(L1, L1')]]

\* submitTransaction of a TransAttToVecTx round.
SubmitTransAttToVecTx(w) ==
    LET me == wl.workers[w]
    IN  /\ wl.txType = "TransAttToVecTx"
        /\ me.pc = "ready"
        /\ me.txIndex < MaxSubmit
        /\ CreateUserVec(me.userId)
        /\ wl' = [wl EXCEPT !.workers[w] =
                     [@ EXCEPT !.txIndex = @ + 1,
                               !.measured = Append(@, Request(last2')),
                               !.written = @ \cup ChangedKeys(L2, L2')]]

NextWorkload ==
    \/ UNCHANGED roundFrame
          /\ \E txType \in RoundTxTypes, roundIndex \in RoundIndexes, attrCount \in AttrCountArgs :
                RoundStart(txType, roundIndex, attrCount)
    \/ UNCHANGED roundFrame
          /\ \E w \in WorkerIndexes, now \in DateNow, rand \in RandomInts :
                InitializeModule(w, now, rand)
    \/ UNCHANGED roundFrame /\ \E w \in WorkerIndexes : SetupSetHidAtt(w)
    \/ UNCHANGED roundFrame /\ \E w \in WorkerIndexes : SetupStoreUserVec(w)
    \/ UNCHANGED roundFrame /\ \E w \in WorkerIndexes : SetupSetPolicyVec(w)
    \/ UNCHANGED roundFrame /\ \E w \in WorkerIndexes : SubmitDecTestTx(w)
    \/ UNCHANGED roundFrame /\ \E w \in WorkerIndexes : SubmitTransAttToVecTx(w)

SpecWorkload == Init /\ [][NextWorkload]_vars

\* ---------------------------------------------------------------------- C31
RoundWorkers == IF wl.txType = "" THEN {} ELSE WorkerIndexes

Initialised(w) == wl.workers[w].pc # "new"

\* The set-up requests of worker w are all there and all succeeded.
SetupComplete(w) ==
    LET me == wl.workers[w]
    IN  /\ me.pc = "ready"
        /\ \A k \in DOMAIN me.setup : me.setup[k].err = ""
        /\ IF wl.txType = "DecTestTx"
           THEN /\ Len(me.setup) = 2
                /\ me.setup[1].fn = "StoreUserVec" /\ me.setup[1].args = <<me.userId>>
                /\ me.setup[2].fn = "CreateVec" /\ me.setup[2].args = <<me.objectId>>
                /\ SKey(me.userId) \in DOMAIN L1
                /\ DataKey(me.objectId) \in DOMAIN L1
                /\ Len(L1[SKey(me.userId)].S) = Len(L1[DataKey(me.objectId)].policyVector)
           ELSE /\ Len(me.setup) = AttrCountOf(wl.attrCount)
                /\ \A k \in DOMAIN me.setup :
                      /\ me.setup[k].fn = "CreateHidAtt"
                      /\ me.setup[k].args[1] = me.userId

ContendedNamespaces == {"ACCESS_LAST", "S", "DATA", "USERVEC"}

\* C31: a worker that has submitted a measured transaction had completed
\* its set-up requests before (StoreUserVec and SetPolicyVecTx for its own
\* user and object with S and P of equal length, or the attrCount
\* SetHidAttTx requests for its user), and no measured transaction failed
\* for a missing vector, a length mismatch or a missing attribute; the ids
\* of two workers differ, and two workers wrote no common ACCESS_LAST, S,
\* DATA or USERVEC key.
C31_SetupPrecedesMeasurement ==
    /\ \A w \in RoundWorkers :
          LET me == wl.workers[w]
          IN  /\ me.measured # <<>> => SetupComplete(w)
              /\ \A k \in DOMAIN me.measured :
                    /\ me.measured[k].err = ""
                    /\ me.measured[k].fn =
                          (IF wl.txType = "DecTestTx" THEN "DecTest" ELSE "CreateUserVec")
    /\ \A w \in RoundWorkers, v \in RoundWorkers :
          (w # v /\ Initialised(w) /\ Initialised(v)) =>
              /\ {wl.workers[w].userId, wl.workers[w].objectId}
                    \cap {wl.workers[v].userId, wl.workers[v].objectId} = {}
              /\ \A k \in wl.workers[w].written \cap wl.workers[v].written :
                    k[1] \notin ContendedNamespaces

\* Both workers of a DecTestTx round, with the same time and random number
\* in their prefixes, have submitted all their measured transactions.
C31_Witness ==
    /\ wl.txType = "DecTestTx"
    /\ \A w \in WorkerIndexes :
          /\ Len(wl.workers[w].measured) = MaxSubmit
          /\ AccessLastKey(wl.workers[w].objectId, wl.workers[w].userId)
                \in wl.workers[w].written
    /\ \E now \in DateNow, rand \in RandomInts : \A w \in WorkerIndexes :
          wl.workers[w].prefix = PrefixString("DecTestTx", wl.roundIndex, w, now, rand)

\* Both workers of a TransAttToVecTx round have submitted all their measured
\* transactions.
WorkloadTransformed ==
    /\ wl.txType = "TransAttToVecTx"
    /\ \A w \in WorkerIndexes :
          /\ Len(wl.workers[w].measured) = MaxSubmit
          /\ UserVecKey(wl.workers[w].userId) \in wl.workers[w].written

====
